---- MODULE Spec2Model ----
(***************************************************************************)
(* Workflow orchestration of the demo-bazel-monorepo repository:           *)
(*   OrderWorkflow       (src/unnamed/part_005)                            *)
(*   PaymentWorkflow     (src/workflows/payment_workflow.go, v1)           *)
(*   PaymentWorkflowV2   (src/workflows/payment_workflow.go, v2)           *)
(*   SecurityScanWorkflow (src/workflows/security_scan_workflow.go)        *)
(*   the permission checks hasPermission and contextHasPermission          *)
(*   the retry policies of the workflows and the task queues of the        *)
(*   workers (src/workflows/worker.go)                                     *)
(* A workflow runs as one coroutine that is suspended at every activity    *)
(* and child-workflow call.  Each action below is one resumption of a      *)
(* workflow: the completion of an activity attempt or of a child, followed *)
(* by the code that runs until the next suspension.  Risk scores are kept  *)
(* in hundredths (0.75 is 75).                                             *)
(***************************************************************************)
EXTENDS Integers, Sequences, FiniteSets, TLC

VARIABLES
    \* ---- OrderWorkflow executions, one per element of Executions
    oPc,        \* position of the coroutine
    oReq,       \* request.OrderID
    oAttempt,   \* attempt number of the activity the execution waits for
    oInv,       \* inventoryResult: [ok (Get returned no error), Available]
    oChildOut,  \* what ExecuteChildWorkflow(...).Get delivered: [res, err]
    oShip,      \* shippingResult.TrackingNumber
    oShipErr,   \* err of GenerateShippingLabel(...).Get
    oRefund,    \* outcome of the RefundPayment invocation: "none", "ok", "failed"
    oOut,       \* what OrderWorkflow returned: [res, err]
    oLog,       \* activities and children dispatched by the execution, in order
    \* ---- PaymentWorkflow (v1) runs, one current run per child workflow id
    pPc,        \* position of the coroutine of the current run
    pRun,       \* number of runs started under this workflow id
    pParent,    \* the OrderWorkflow execution that started the current run
    pAttempt,   \* attempt number of the activity the run waits for
    pLast,      \* error kind of the attempt before it, "" when it is the first
    pQueue,     \* task queue the tasks of the current run are put on
    pFraud,     \* fraudResult.RiskScore
    pErr,       \* err of the Get that failed terminally, NoError when none did
    pCharge,    \* chargeResult.TransactionID
    pOut,       \* what PaymentWorkflow returned: [res, err]
    pConf,      \* SendPaymentConfirmation: "none", "dispatched", "ok", "failed"
    pLog,       \* activities dispatched by the current run, in order
    \* ---- the payment gateway behind the activities
    charges,    \* committed charges: records [order, child, run, txn]
    refunds,    \* transaction ids refunded
    \* ---- one PaymentWorkflowV2 execution
    v2Pc,       \* position of the coroutine
    v2Fut,      \* the two futures: [state, attempt, value, kind]
    v2Handled,  \* futures whose selector callback has run, in order
    v2Rounds,   \* completed iterations of the Select loop
    v2Fraud,    \* fraudResult.RiskScore
    v2Card,     \* cardValid
    v2Charge,   \* the ChargePaymentMethodV2 invocation: [state, attempt, value, kind]
    v2Out,      \* what PaymentWorkflowV2 returned: [res, err]
    v2Log,      \* activities dispatched, in order
    \* ---- one SecurityScanWorkflow execution
    sPc,        \* position of the coroutine
    sPerms,     \* agentCtx.Permissions
    sTypes,     \* request.ScanTypes
    sFut,       \* the futures map, by scan type: [state, attempt, value, kind]
    sLost,      \* by scan type: the future the fan-out loop overwrote in the map
    sCur,       \* the key whose future the collect loop waits for
    sVisited,   \* keys the collect loop is done with, in iteration order
    sVulns,     \* allVulnerabilities
    sReport,    \* the GenerateSecurityReport invocation and reportResult
    sNotify,    \* NotifyComplianceTeam: "none", "dispatched", "ok", "failed"
    sOut,       \* what SecurityScanWorkflow returned: [done, res, err]
    sLog,       \* activities dispatched, in order
    \* ---- the last permission query and the decisions taken on it
    permCtx,    \* the permission list asked about
    permReq,    \* the required token
    permGo,     \* hasPermission(permCtx, permReq)
    permTs,     \* contextHasPermission({permissions: permCtx}, permReq)
    permMw,     \* requirePermission(permReq) let the request through to next()
    permReg,    \* AgentRegistry.hasPermission(agent with permCtx, permReq)
    \* ---- the last question put to the retry evaluator, and its answer
    rCall       \* [policy, attempt, kind, stop, delay, previous]

orderVars == <<oPc, oReq, oAttempt, oInv, oChildOut, oShip, oShipErr, oRefund, oOut, oLog>>
payVars == <<pPc, pRun, pParent, pQueue, pAttempt, pLast, pFraud, pErr, pCharge, pOut, pConf, pLog>>
gatewayVars == <<charges, refunds>>
v2Vars == <<v2Pc, v2Fut, v2Handled, v2Rounds, v2Fraud, v2Card, v2Charge, v2Out, v2Log>>
scanVars == <<sPc, sPerms, sTypes, sLost, sFut, sCur, sVisited, sVulns, sReport, sNotify, sOut, sLog>>
permVars == <<permCtx, permReq, permGo, permTs, permMw, permReg>>
retryVars == <<rCall>>
vars == <<orderVars, payVars, gatewayVars, v2Vars, scanVars, permVars, retryVars>>

(***************************************************************************)
(* Bounds of the model.                                                    *)
(***************************************************************************)
Executions == {"w1", "w2"}
OrderIds == {"order-123", "order-456"}
\* the first execution's order id is fixed; the second repeats it or differs
RequestIds(w) == IF w = "w1" THEN {"order-123"} ELSE OrderIds
TrackingNumbers == {"TRK-123"}
\* risk scores in hundredths, on both sides of the two thresholds
RiskScores == {80, 81}
RiskScoresV2 == {12, 75, 76}
\* attempts of one run that time out after the gateway committed the charge
MaxLostCharges == 1
\* error kinds an activity attempt can fail with
\* attempt numbers the retry evaluator is asked about
MaxAttemptNumber == 8
TransientKinds == {"TimeoutError"}
PaymentKinds == {"TimeoutError", "InsufficientFundsError"}
FraudKinds == {"TimeoutError", "FraudDetectedError"}
CardKinds == {"TimeoutError", "InvalidCardError"}
ScanKinds == {"TimeoutError"}

\* A permission token is kept as the list of its ':'-separated segments
\* ("security:scan:execute" is <<"security", "scan", "execute">>); two tokens
\* are the same string exactly when their segment lists are equal.
ScanExecute == <<"security", "scan", "execute">>
SecurityWildcard == <<"security", "*">>
PermissionTokens ==
    { SecurityWildcard, ScanExecute, <<"read", "only">>, <<"billing", "read">>,
      <<"billing", "*">>, <<"*">> }
\* longest permission list of a permission query
MaxPermissions == 2
PermissionLists == UNION {[1..n -> PermissionTokens] : n \in 0..MaxPermissions}
\* permission lists of the callers of SecurityScanWorkflow
ScanCallers ==
    { <<>>, << <<"read", "only">> >>, << <<"billing", "*">> >>, << <<"*">> >>,
      << ScanExecute >>, << <<"read", "only">>, SecurityWildcard >> }
\* request.ScanTypes
ScanRequests ==
    { <<>>, <<"sast">>, <<"dependency">>, <<"license">>, <<"sast", "dependency">>,
      <<"dependency", "sast">>, <<"sast", "sast">> }
ReportIds == {"SEC-1"}

(***************************************************************************)
(* Values.                                                                 *)
(***************************************************************************)
NoError == [activity |-> "", kind |-> ""]
ActivityError(name, kind) == [activity |-> name, kind |-> kind]
\* go.temporal.io/sdk: ChildWorkflowExecutionAlreadyStartedError, and the
\* error a parent sees when its child is terminated
AlreadyStarted == [activity |-> "PaymentWorkflow", kind |-> "ChildWorkflowExecutionAlreadyStartedError"]
Terminated == [activity |-> "PaymentWorkflow", kind |-> "TerminatedError"]

\* a nil *OrderResult / *PaymentResult
NilOrderResult ==
    [nil |-> TRUE, OrderID |-> "", Status |-> "", PaymentID |-> "", ShippingLabel |-> ""]
OrderResult(orderId, status, paymentId, label) ==
    [nil |-> FALSE, OrderID |-> orderId, Status |-> status, PaymentID |-> paymentId,
     ShippingLabel |-> label]
NilPaymentResult ==
    [nil |-> TRUE, TransactionID |-> "", Status |-> "", ErrorMessage |-> ""]
PaymentResult(txn, status, msg) ==
    [nil |-> FALSE, TransactionID |-> txn, Status |-> status, ErrorMessage |-> msg]
Pending == [done |-> FALSE, res |-> NilOrderResult, err |-> NoError]
Returned(res, err) == [done |-> TRUE, res |-> res, err |-> err]

(***************************************************************************)
(* Retry policies attached to the activity options, and the decision the   *)
(* activity invoker takes after a failed attempt.                          *)
(***************************************************************************)
OrderMaximumAttempts == 3
\* faulty variant: one attempt more than the policy of PaymentWorkflow allows
PaymentMaximumAttemptsSix == 5 + 1
PaymentMaximumAttempts == 5
PaymentV2MaximumAttempts == 3

\* Intervals are in milliseconds; BackoffCoefficient is the fraction num/den.
\* faulty variant: the intervals of PaymentWorkflow's policy
OrderRetryPolicyPaymentIntervals ==
    [InitialInterval |-> 2000, BackoffCoefficient |-> [num |-> 2, den |-> 1],
     MaximumInterval |-> 30000,
     MaximumAttempts |-> OrderMaximumAttempts, NonRetryableErrorTypes |-> {}]
OrderRetryPolicy ==
    [InitialInterval |-> 1000, BackoffCoefficient |-> [num |-> 2, den |-> 1],
     MaximumInterval |-> 60000,
     MaximumAttempts |-> OrderMaximumAttempts, NonRetryableErrorTypes |-> {}]
\* faulty variant: no error kind is exempt from retries
PaymentRetryPolicyRetriesAll ==
    [InitialInterval |-> 2000, BackoffCoefficient |-> [num |-> 2, den |-> 1],
     MaximumInterval |-> 30000,
     MaximumAttempts |-> PaymentMaximumAttempts, NonRetryableErrorTypes |-> {}]
PaymentRetryPolicy ==
    [InitialInterval |-> 2000, BackoffCoefficient |-> [num |-> 2, den |-> 1],
     MaximumInterval |-> 30000,
     MaximumAttempts |-> PaymentMaximumAttempts,
     NonRetryableErrorTypes |-> {"FraudDetectedError", "InsufficientFundsError"}]
PaymentV2RetryPolicy ==
    [InitialInterval |-> 1000, BackoffCoefficient |-> [num |-> 3, den |-> 2],
     MaximumInterval |-> 15000,
     MaximumAttempts |-> PaymentV2MaximumAttempts,
     NonRetryableErrorTypes |->
        {"FraudDetectedError", "InsufficientFundsError", "InvalidCardError"}]

\* TRUE when the failed attempt number `attempt` is the last one
StopsRetrying(policy, attempt, kind) ==
    \/ kind \in policy.NonRetryableErrorTypes
    \/ (policy.MaximumAttempts > 0 /\ attempt >= policy.MaximumAttempts)

RECURSIVE Power(_, _)
Power(base, exponent) == IF exponent = 0 THEN 1 ELSE base * Power(base, exponent - 1)

\* the interval before the retry that follows attempt number `attempt`, in
\* whole milliseconds
BackoffInterval(policy, attempt) ==
    LET coefficient == policy.BackoffCoefficient
        grown == (policy.InitialInterval * Power(coefficient.num, attempt - 1))
                    \div Power(coefficient.den, attempt - 1)
    IN IF grown < policy.MaximumInterval THEN grown ELSE policy.MaximumInterval

(***************************************************************************)
(* OrderWorkflow.                                                          *)
(***************************************************************************)
Dispatch(name, arg) == [name |-> name, arg |-> arg]

\* childOptions.WorkflowID
ChildWorkflowID(orderId) == "payment-" \o orderId

\* the task queues the workers poll
OrderTaskQueue == "order-processing"
PaymentTaskQueue == "payment-processing"
SecurityTaskQueue == "security-scanning"
TaskQueues == {OrderTaskQueue, PaymentTaskQueue, SecurityTaskQueue}

\* what each worker registers on the queue it polls
RegisteredWorkflows(queue) ==
    IF queue = OrderTaskQueue THEN {"OrderWorkflow"}
    ELSE IF queue = PaymentTaskQueue THEN {"PaymentWorkflow", "PaymentWorkflowV2"}
    ELSE IF queue = SecurityTaskQueue THEN {"SecurityScanWorkflow"}
    ELSE {}
RegisteredActivities(queue) ==
    IF queue = OrderTaskQueue
    THEN {"ValidateInventory", "GenerateShippingLabel", "RefundPayment"}
    ELSE IF queue = PaymentTaskQueue
    THEN {"CheckFraud", "CheckFraudV2", "ValidateCard", "ChargePaymentMethod",
          "ChargePaymentMethodV2", "SendPaymentConfirmation"}
    ELSE IF queue = SecurityTaskQueue
    THEN {"RunSASTScan", "RunDASTScan", "RunDependencyScan", "RunSecretsScan",
          "GenerateSecurityReport", "NotifyComplianceTeam"}
    ELSE {}

\* childOptions: WorkflowID is the only field set, TaskQueue is left empty
ChildWorkflowOptions(orderId) ==
    [WorkflowID |-> ChildWorkflowID(orderId), TaskQueue |-> ""]

\* the queue of a child: the one its options name, else the parent's
ChildTaskQueue(options, parentQueue) ==
    IF options.TaskQueue = "" THEN parentQueue ELSE options.TaskQueue

\* faulty variant: the availability check is dropped
InventoryAvailableAlways(inventoryResult) == TRUE

\* !inventoryResult.Available is the unavailable branch
InventoryAvailable(inventoryResult) == inventoryResult.Available

\* faulty variant: every child result counts as approved
IsApprovedAlways(paymentResult) == TRUE

\* paymentResult.Status != "APPROVED" is the declined branch
IsApproved(paymentResult) == paymentResult.Status = "APPROVED"

\* the input of the compensation activity
RefundInput(paymentResult) == paymentResult.TransactionID

\* faulty variant: a failed refund replaces the shipping error
ShippingFailureReturnsRefundError(shipErr, refundErr) ==
    Returned(NilOrderResult, IF refundErr # NoError THEN refundErr ELSE shipErr)

\* what the workflow returns after the compensation ran; refundErr is the
\* discarded result of RefundPayment(...).Get
ShippingFailureReturn(shipErr, refundErr) == Returned(NilOrderResult, shipErr)

\* faulty variant: the declined branch reports the child's own status
DeclinedResultChildStatus(orderId, paymentResult) ==
    OrderResult(orderId, paymentResult.Status, paymentResult.TransactionID, "")

DeclinedResult(orderId, paymentResult) ==
    OrderResult(orderId, "PAYMENT_DECLINED", paymentResult.TransactionID, "")

\* faulty variant: the tracking number is left out of the result
CompletedResultNoLabel(orderId, paymentResult, trackingNumber) ==
    OrderResult(orderId, "COMPLETED", paymentResult.TransactionID, "")

CompletedResult(orderId, paymentResult, trackingNumber) ==
    OrderResult(orderId, "COMPLETED", paymentResult.TransactionID, trackingNumber)

\* A client starts an OrderWorkflow execution; the code runs up to the first
\* ExecuteActivity(ctx, ValidateInventory, request.Items).Get.
StartOrder(w) ==
    /\ oPc[w] = "idle"
    /\ \E id \in RequestIds(w) : oReq' = [oReq EXCEPT ![w] = id]
    /\ oPc' = [oPc EXCEPT ![w] = "inventory"]
    /\ oAttempt' = [oAttempt EXCEPT ![w] = 1]
    /\ oLog' = [oLog EXCEPT ![w] = <<Dispatch("ValidateInventory", "items")>>]
    /\ UNCHANGED <<oInv, oChildOut, oShip, oShipErr, oRefund, oOut>>
    /\ UNCHANGED <<payVars, gatewayVars, v2Vars, scanVars, permVars, retryVars>>

\* faulty variant: the error is turned into a result with a status
ErrorReturnAsStatus(orderId, err) ==
    Returned(OrderResult(orderId, "FAILED", "", ""), NoError)

\* `return nil, err` of Step 1 and Step 2
ErrorReturn(orderId, err) == Returned(NilOrderResult, err)

\* An attempt of ValidateInventory ends.
ValidateInventoryAttempt(w) ==
    /\ oPc[w] = "inventory"
    /\ \/ \E available \in BOOLEAN :
            /\ oInv' = [oInv EXCEPT ![w] = [ok |-> TRUE, Available |-> available]]
            /\ IF ~InventoryAvailable([Available |-> available])
               THEN /\ oPc' = [oPc EXCEPT ![w] = "done"]
                    /\ oOut' = [oOut EXCEPT ![w] =
                          Returned(OrderResult(oReq[w], "INVENTORY_UNAVAILABLE", "", ""),
                                   NoError)]
                    /\ UNCHANGED oLog
               ELSE /\ oPc' = [oPc EXCEPT ![w] = "childStart"]
                    /\ oLog' = [oLog EXCEPT ![w] =
                          Append(@, Dispatch("PaymentWorkflow", ChildWorkflowID(oReq[w])))]
                    /\ UNCHANGED oOut
            /\ oAttempt' = [oAttempt EXCEPT ![w] = 0]
       \/ \E kind \in TransientKinds :
            /\ IF StopsRetrying(OrderRetryPolicy, oAttempt[w], kind)
               THEN /\ oPc' = [oPc EXCEPT ![w] = "done"]
                    /\ oOut' = [oOut EXCEPT ![w] =
                          ErrorReturn(oReq[w], ActivityError("ValidateInventory", kind))]
                    /\ oAttempt' = [oAttempt EXCEPT ![w] = 0]
               ELSE /\ oAttempt' = [oAttempt EXCEPT ![w] = @ + 1]
                    /\ UNCHANGED <<oPc, oOut>>
            /\ UNCHANGED <<oInv, oLog>>
    /\ UNCHANGED <<oReq, oChildOut, oShip, oShipErr, oRefund>>
    /\ UNCHANGED <<payVars, gatewayVars, v2Vars, scanVars, permVars, retryVars>>

\* The server handles the StartChildWorkflowExecution command.  The child
\* options set only WorkflowID, so the workflow id reuse policy is the SDK's
\* default (AllowDuplicate): the start fails while a run with that id is
\* open, and starts a new run once the earlier run is closed.
StartChild(w) ==
    LET c == ChildWorkflowID(oReq[w]) IN
    /\ oPc[w] = "childStart"
    /\ \/ /\ pPc[c] \in {"fraud", "charge"}
          /\ oPc' = [oPc EXCEPT ![w] = "childDone"]
          /\ oChildOut' = [oChildOut EXCEPT ![w] = [res |-> NilPaymentResult, err |-> AlreadyStarted]]
          /\ UNCHANGED payVars
       \/ /\ pPc[c] \in {"none", "closed"}
          /\ oPc' = [oPc EXCEPT ![w] = "child"]
          /\ pPc' = [pPc EXCEPT ![c] = "fraud"]
          /\ pRun' = [pRun EXCEPT ![c] = @ + 1]
          /\ pParent' = [pParent EXCEPT ![c] = w]
          /\ pQueue' = [pQueue EXCEPT ![c] = ChildTaskQueue(ChildWorkflowOptions(oReq[w]),
                                                           OrderTaskQueue)]
          /\ pAttempt' = [pAttempt EXCEPT ![c] = 1]
          /\ pLast' = [pLast EXCEPT ![c] = ""]
          /\ pFraud' = [pFraud EXCEPT ![c] = 0]
          /\ pErr' = [pErr EXCEPT ![c] = NoError]
          /\ pCharge' = [pCharge EXCEPT ![c] = ""]
          /\ pOut' = [pOut EXCEPT ![c] = [done |-> FALSE, res |-> NilPaymentResult, err |-> NoError]]
          /\ pConf' = [pConf EXCEPT ![c] = "none"]
          /\ pLog' = [pLog EXCEPT ![c] = <<Dispatch("CheckFraud", oReq[w])>>]
          /\ UNCHANGED oChildOut
    /\ UNCHANGED <<oReq, oAttempt, oInv, oShip, oShipErr, oRefund, oOut, oLog>>
    /\ UNCHANGED <<gatewayVars, v2Vars, scanVars, permVars, retryVars>>

\* faulty variant: the declined branch compensates too
OrderAfterChildRefundsDeclined(w) ==
    LET out == oChildOut[w] IN
    /\ oPc[w] = "childDone"
    /\ IF out.err # NoError
       THEN /\ oPc' = [oPc EXCEPT ![w] = "done"]
            /\ oOut' = [oOut EXCEPT ![w] = ErrorReturn(oReq[w], out.err)]
            /\ UNCHANGED <<oAttempt, oLog>>
       ELSE IF ~IsApproved(out.res)
       THEN /\ oPc' = [oPc EXCEPT ![w] = "refund"]
            /\ oAttempt' = [oAttempt EXCEPT ![w] = 1]
            /\ oLog' = [oLog EXCEPT ![w] = Append(@, Dispatch("RefundPayment", RefundInput(out.res)))]
            /\ UNCHANGED oOut
       ELSE /\ oPc' = [oPc EXCEPT ![w] = "shipping"]
            /\ oAttempt' = [oAttempt EXCEPT ![w] = 1]
            /\ oLog' = [oLog EXCEPT ![w] = Append(@, Dispatch("GenerateShippingLabel", oReq[w]))]
            /\ UNCHANGED oOut
    /\ UNCHANGED <<oReq, oInv, oChildOut, oShip, oShipErr, oRefund>>
    /\ UNCHANGED <<payVars, gatewayVars, v2Vars, scanVars, permVars, retryVars>>

\* ExecuteChildWorkflow(...).Get returns; the code runs up to the Get of
\* GenerateShippingLabel or returns.
OrderAfterChild(w) ==
    LET out == oChildOut[w] IN
    /\ oPc[w] = "childDone"
    /\ IF out.err # NoError
       THEN /\ oPc' = [oPc EXCEPT ![w] = "done"]
            /\ oOut' = [oOut EXCEPT ![w] = ErrorReturn(oReq[w], out.err)]
            /\ UNCHANGED <<oAttempt, oLog>>
       ELSE IF ~IsApproved(out.res)
       THEN /\ oPc' = [oPc EXCEPT ![w] = "done"]
            /\ oOut' = [oOut EXCEPT ![w] = Returned(DeclinedResult(oReq[w], out.res), NoError)]
            /\ UNCHANGED <<oAttempt, oLog>>
       ELSE /\ oPc' = [oPc EXCEPT ![w] = "shipping"]
            /\ oAttempt' = [oAttempt EXCEPT ![w] = 1]
            /\ oLog' = [oLog EXCEPT ![w] = Append(@, Dispatch("GenerateShippingLabel", oReq[w]))]
            /\ UNCHANGED oOut
    /\ UNCHANGED <<oReq, oInv, oChildOut, oShip, oShipErr, oRefund>>
    /\ UNCHANGED <<payVars, gatewayVars, v2Vars, scanVars, permVars, retryVars>>

\* An attempt of GenerateShippingLabel ends.
GenerateShippingLabelAttempt(w) ==
    /\ oPc[w] = "shipping"
    /\ \/ \E trackingNumber \in TrackingNumbers :
            /\ oShip' = [oShip EXCEPT ![w] = trackingNumber]
            /\ oPc' = [oPc EXCEPT ![w] = "done"]
            /\ oOut' = [oOut EXCEPT ![w] =
                  Returned(CompletedResult(oReq[w], oChildOut[w].res, trackingNumber), NoError)]
            /\ oAttempt' = [oAttempt EXCEPT ![w] = 0]
            /\ UNCHANGED <<oShipErr, oLog>>
       \/ \E kind \in TransientKinds :
            /\ IF StopsRetrying(OrderRetryPolicy, oAttempt[w], kind)
               THEN /\ oShipErr' = [oShipErr EXCEPT ![w] =
                          ActivityError("GenerateShippingLabel", kind)]
                    /\ oPc' = [oPc EXCEPT ![w] = "refund"]
                    /\ oAttempt' = [oAttempt EXCEPT ![w] = 1]
                    /\ oLog' = [oLog EXCEPT ![w] =
                          Append(@, Dispatch("RefundPayment", RefundInput(oChildOut[w].res)))]
               ELSE /\ oAttempt' = [oAttempt EXCEPT ![w] = @ + 1]
                    /\ UNCHANGED <<oPc, oShipErr, oLog>>
            /\ UNCHANGED <<oShip, oOut>>
    /\ UNCHANGED <<oReq, oInv, oChildOut, oRefund>>
    /\ UNCHANGED <<payVars, gatewayVars, v2Vars, scanVars, permVars, retryVars>>

\* An attempt of RefundPayment ends; its error is discarded.
RefundPaymentAttempt(w) ==
    LET txn == oLog[w][Len(oLog[w])].arg IN
    /\ oPc[w] = "refund"
    /\ \/ /\ refunds' = refunds \cup {txn}
          /\ oRefund' = [oRefund EXCEPT ![w] = "ok"]
          /\ oPc' = [oPc EXCEPT ![w] = "done"]
          /\ oOut' = [oOut EXCEPT ![w] = ShippingFailureReturn(oShipErr[w], NoError)]
          /\ oAttempt' = [oAttempt EXCEPT ![w] = 0]
       \/ \E kind \in TransientKinds :
            /\ IF StopsRetrying(OrderRetryPolicy, oAttempt[w], kind)
               THEN /\ oRefund' = [oRefund EXCEPT ![w] = "failed"]
                    /\ oPc' = [oPc EXCEPT ![w] = "done"]
                    /\ oOut' = [oOut EXCEPT ![w] =
                          ShippingFailureReturn(oShipErr[w],
                                                ActivityError("RefundPayment", kind))]
                    /\ oAttempt' = [oAttempt EXCEPT ![w] = 0]
               ELSE /\ oAttempt' = [oAttempt EXCEPT ![w] = @ + 1]
                    /\ UNCHANGED <<oPc, oRefund, oOut>>
            /\ UNCHANGED refunds
    /\ UNCHANGED <<oReq, oInv, oChildOut, oShip, oShipErr, oLog>>
    /\ UNCHANGED <<payVars, charges, v2Vars, scanVars, permVars, retryVars>>

\* what Get returns for an activity called on a cancelled context
Canceled(name) == ActivityError(name, "CanceledError")

\* A cancellation request reaches execution w while it waits for an activity
\* of its own (cancellation while the payment child runs is not modelled).
\* ctx is cancelled: the Get the code waits in returns a CanceledError and no
\* further attempt is made.  The code then takes its error path on the same
\* ctx: in Step 3 that is the compensation branch, where ExecuteActivity on
\* the cancelled ctx schedules nothing and its Get returns a CanceledError,
\* which is discarded.  A RefundPayment attempt that was under way when the
\* request came may or may not have refunded.
CancelOrder(w) ==
    /\ oPc[w] \in {"inventory", "shipping", "refund"}
    /\ oPc' = [oPc EXCEPT ![w] = "done"]
    /\ oAttempt' = [oAttempt EXCEPT ![w] = 0]
    /\ IF oPc[w] = "inventory"
       THEN /\ oOut' = [oOut EXCEPT ![w] = Returned(NilOrderResult, Canceled("ValidateInventory"))]
            /\ UNCHANGED <<oShipErr, oRefund, refunds>>
       ELSE IF oPc[w] = "shipping"
       THEN /\ oShipErr' = [oShipErr EXCEPT ![w] = Canceled("GenerateShippingLabel")]
            /\ oRefund' = [oRefund EXCEPT ![w] = "cancelled"]
            /\ oOut' = [oOut EXCEPT ![w] =
                  ShippingFailureReturn(Canceled("GenerateShippingLabel"),
                                        Canceled("RefundPayment"))]
            /\ UNCHANGED refunds
       ELSE /\ oRefund' = [oRefund EXCEPT ![w] = "cancelled"]
            /\ oOut' = [oOut EXCEPT ![w] =
                  ShippingFailureReturn(oShipErr[w], Canceled("RefundPayment"))]
            /\ \E refunded \in BOOLEAN :
                  refunds' = IF refunded THEN refunds \cup {oLog[w][Len(oLog[w])].arg}
                             ELSE refunds
            /\ UNCHANGED oShipErr
    /\ UNCHANGED <<oReq, oInv, oChildOut, oShip, oLog>>
    /\ UNCHANGED <<payVars, charges, v2Vars, scanVars, permVars, retryVars>>

(***************************************************************************)
(* PaymentWorkflow (v1), run as the child of an OrderWorkflow execution.   *)
(* The steps below are those of the run once a worker executes its tasks;  *)
(* pQueue records the queue the tasks are put on, and which worker polls   *)
(* that queue is a matter of RegisteredWorkflows and RegisteredActivities. *)
(***************************************************************************)
ChildIds == {ChildWorkflowID(id) : id \in OrderIds}

\* fraudResult.RiskScore > 0.8
FraudThreshold == 80

\* ChargePaymentMethod: fmt.Sprintf("TXN-%d", time.Now().UnixNano()), a fresh
\* id for every charge: the n-th charge of run `run` of workflow id c
TransactionID(c, run, n) ==
    "TXN-" \o c \o "-" \o ToString(run) \o "-" \o ToString(n)

Charge(c, txn) ==
    [order |-> oReq[pParent[c]], child |-> c, run |-> pRun[c], txn |-> txn]

\* charges committed by the current run so far
RunCharges(c) ==
    Cardinality({ch \in charges : ch.child = c /\ ch.run = pRun[c]})

\* err.Error(): the text of an activity error names the activity and the
\* type of the failure
Error(err) == err.activity \o ": " \o err.kind

\* faulty variant: the threshold itself is suspected
FraudSuspectedAtThreshold(riskScore) == riskScore >= FraudThreshold

FraudSuspected(riskScore) == riskScore > FraudThreshold

SuspectedReturn ==
    Returned(PaymentResult("", "FRAUD_SUSPECTED", "Risk score exceeds threshold"), NoError)

\* faulty variant: the failed fraud check is reported without its message
FraudCheckFailureReturnNoMessage(err) ==
    Returned(PaymentResult("", "FRAUD_CHECK_FAILED", ""), NoError)

\* what the workflow returns when CheckFraud failed terminally
FraudCheckFailureReturn(err) ==
    Returned(PaymentResult("", "FRAUD_CHECK_FAILED", Error(err)), NoError)

\* faulty variant: the charge failure is returned as the workflow's error, as in v2
ChargeFailureReturnsError(err) == Returned(NilPaymentResult, err)

\* what the workflow returns when ChargePaymentMethod failed terminally
ChargeFailureReturn(err) ==
    Returned(PaymentResult("", "CHARGE_FAILED", Error(err)), NoError)

ApprovedReturn(transactionID) ==
    Returned(PaymentResult(transactionID, "APPROVED", ""), NoError)

\* The run returns out = (res, err) and the parent's Get is released.
ChildCloses(c, out) ==
    /\ pPc' = [pPc EXCEPT ![c] = "closed"]
    /\ pOut' = [pOut EXCEPT ![c] = out]
    /\ pAttempt' = [pAttempt EXCEPT ![c] = 0]
    /\ pLast' = [pLast EXCEPT ![c] = ""]
    /\ oPc' = [oPc EXCEPT ![pParent[c]] = "childDone"]
    /\ oChildOut' = [oChildOut EXCEPT ![pParent[c]] = [res |-> out.res, err |-> out.err]]

\* An attempt of CheckFraud ends.
CheckFraudAttempt(c) ==
    /\ pPc[c] = "fraud"
    /\ \/ \E riskScore \in RiskScores :
            /\ pFraud' = [pFraud EXCEPT ![c] = riskScore]
            /\ IF FraudSuspected(riskScore)
               THEN /\ ChildCloses(c, SuspectedReturn)
                    /\ UNCHANGED pLog
               ELSE /\ pPc' = [pPc EXCEPT ![c] = "charge"]
                    /\ pAttempt' = [pAttempt EXCEPT ![c] = 1]
                    /\ pLast' = [pLast EXCEPT ![c] = ""]
                    /\ pLog' = [pLog EXCEPT ![c] =
                          Append(@, Dispatch("ChargePaymentMethod", oReq[pParent[c]]))]
                    /\ UNCHANGED <<pOut, oPc, oChildOut>>
            /\ UNCHANGED pErr
       \/ \E kind \in FraudKinds :
            LET err == ActivityError("CheckFraud", kind) IN
            /\ IF StopsRetrying(PaymentRetryPolicy, pAttempt[c], kind)
               THEN /\ pErr' = [pErr EXCEPT ![c] = err]
                    /\ ChildCloses(c, FraudCheckFailureReturn(err))
               ELSE /\ pAttempt' = [pAttempt EXCEPT ![c] = @ + 1]
                    /\ pLast' = [pLast EXCEPT ![c] = kind]
                    /\ UNCHANGED <<pPc, pErr, pOut, oPc, oChildOut>>
            /\ UNCHANGED <<pFraud, pLog>>
    /\ UNCHANGED <<pRun, pParent, pQueue, pCharge, pConf>>
    /\ UNCHANGED <<oReq, oAttempt, oInv, oShip, oShipErr, oRefund, oOut, oLog>>
    /\ UNCHANGED <<gatewayVars, v2Vars, scanVars, permVars, retryVars>>

\* faulty variant: the confirmation is sent for the order, not for the charge
ConfirmationInputOrder(request, chargeResult) == request

\* the input of SendPaymentConfirmation: chargeResult.TransactionID
ConfirmationInput(request, chargeResult) == chargeResult.TransactionID

\* An attempt of ChargePaymentMethod ends.  An attempt that times out may
\* have charged the customer before the timeout.
ChargePaymentMethodAttempt(c) ==
    LET txn == TransactionID(c, pRun[c], RunCharges(c) + 1) IN
    /\ pPc[c] = "charge"
    /\ \/ /\ charges' = charges \cup {Charge(c, txn)}
          /\ pConf' = [pConf EXCEPT ![c] = "dispatched"]
          /\ pCharge' = [pCharge EXCEPT ![c] = txn]
          /\ pLog' = [pLog EXCEPT ![c] =
                Append(@, Dispatch("SendPaymentConfirmation",
                                   ConfirmationInput(oReq[pParent[c]],
                                                     [TransactionID |-> txn])))]
          /\ ChildCloses(c, ApprovedReturn(txn))
          /\ UNCHANGED pErr
       \/ \E kind \in PaymentKinds, committed \in BOOLEAN :
            LET err == ActivityError("ChargePaymentMethod", kind) IN
            /\ committed => (kind = "TimeoutError" /\ RunCharges(c) < MaxLostCharges)
            /\ charges' = IF committed THEN charges \cup {Charge(c, txn)} ELSE charges
            /\ IF StopsRetrying(PaymentRetryPolicy, pAttempt[c], kind)
               THEN /\ pErr' = [pErr EXCEPT ![c] = err]
                    /\ ChildCloses(c, ChargeFailureReturn(err))
               ELSE /\ pAttempt' = [pAttempt EXCEPT ![c] = @ + 1]
                    /\ pLast' = [pLast EXCEPT ![c] = kind]
                    /\ UNCHANGED <<pPc, pErr, pOut, oPc, oChildOut>>
            /\ UNCHANGED <<pCharge, pConf, pLog>>
    /\ UNCHANGED <<pRun, pParent, pQueue, pFraud>>
    /\ UNCHANGED <<oReq, oAttempt, oInv, oShip, oShipErr, oRefund, oOut, oLog>>
    /\ UNCHANGED <<refunds, v2Vars, scanVars, permVars, retryVars>>

\* faulty variant: the result follows the outcome of the confirmation
SendPaymentConfirmationEndsChangesResult(c) ==
    /\ pConf[c] = "dispatched"
    /\ \E outcome \in {"ok", "failed"} :
          /\ pConf' = [pConf EXCEPT ![c] = outcome]
          /\ pOut' = [pOut EXCEPT ![c] =
                IF outcome = "failed"
                THEN Returned(PaymentResult(pCharge[c], "CONFIRMATION_FAILED", ""), NoError)
                ELSE @]
    /\ UNCHANGED <<pPc, pRun, pParent, pQueue, pAttempt, pLast, pFraud, pErr, pCharge, pLog>>
    /\ UNCHANGED <<orderVars, gatewayVars, v2Vars, scanVars, permVars, retryVars>>

\* The fire-and-forget SendPaymentConfirmation ends; nothing waits for it.
SendPaymentConfirmationEnds(c) ==
    /\ pConf[c] = "dispatched"
    /\ \E outcome \in {"ok", "failed"} : pConf' = [pConf EXCEPT ![c] = outcome]
    /\ UNCHANGED <<pPc, pRun, pParent, pQueue, pAttempt, pLast, pFraud, pErr, pCharge, pOut, pLog>>
    /\ UNCHANGED <<orderVars, gatewayVars, v2Vars, scanVars, permVars, retryVars>>

\* An operator terminates the open child run; the parent's Get returns the
\* error.
TerminateChild(c) ==
    /\ pPc[c] \in {"fraud", "charge"}
    /\ ChildCloses(c, Returned(NilPaymentResult, Terminated))
    /\ UNCHANGED <<pRun, pParent, pQueue, pFraud, pErr, pCharge, pConf, pLog>>
    /\ UNCHANGED <<oReq, oAttempt, oInv, oShip, oShipErr, oRefund, oOut, oLog>>
    /\ UNCHANGED <<gatewayVars, v2Vars, scanVars, permVars, retryVars>>

(***************************************************************************)
(* PaymentWorkflowV2.                                                      *)
(***************************************************************************)
Futures == {"fraud", "card"}
NoFuture(zero) == [state |-> "none", attempt |-> 0, value |-> zero, kind |-> ""]
NoPaymentOut == [done |-> FALSE, res |-> NilPaymentResult, err |-> NoError]
V2OrderId == "order-123"

V2Idle ==
    /\ v2Pc = "idle"
    /\ v2Fut = [f \in Futures |-> IF f = "fraud" THEN NoFuture(0) ELSE NoFuture(FALSE)]
    /\ v2Handled = <<>>
    /\ v2Rounds = 0
    /\ v2Fraud = 0
    /\ v2Card = FALSE
    /\ v2Charge = NoFuture("")
    /\ v2Out = NoPaymentOut
    /\ v2Log = <<>>

\* faulty variant: the loop runs once, so the decision follows the first result
SelectRoundsOnce == 2 - 1

\* faulty variant: the loop selects once more than there are futures
SelectRoundsThrice == 2 + 1

\* for i := 0; i < 2; i++ { selector.Select(ctx) }
SelectRounds == 2

\* fraudResult.RiskScore > 0.75
DeclineThreshold == 75

\* faulty variant: the threshold itself declines
DeclinesAtThreshold(cardValid, riskScore) == ~cardValid \/ riskScore >= DeclineThreshold

\* !cardValid || fraudResult.RiskScore > 0.75
Declines(cardValid, riskScore) == ~cardValid \/ riskScore > DeclineThreshold

\* faulty variant: the charge failure is mapped to a soft status, as in v1
ChargeV2FailureReturnsSoftStatus(err) ==
    Returned(PaymentResult("", "CHARGE_FAILED", err.kind), NoError)

\* what the workflow returns when ChargePaymentMethodV2 failed terminally
ChargeV2FailureReturn(err) == Returned(NilPaymentResult, err)

\* The workflow starts: both activities are dispatched and both futures are
\* added to the selector; the code stops in the first selector.Select.
StartPaymentV2 ==
    /\ v2Pc = "idle"
    /\ v2Pc' = "select"
    /\ v2Fut' = [f \in Futures |-> [v2Fut[f] EXCEPT !.state = "running", !.attempt = 1]]
    /\ v2Log' = <<Dispatch("CheckFraudV2", V2OrderId), Dispatch("ValidateCard", "customer")>>
    /\ UNCHANGED <<v2Handled, v2Rounds, v2Fraud, v2Card, v2Charge, v2Out>>
    /\ UNCHANGED <<scanVars, permVars, retryVars, orderVars, payVars, gatewayVars>>

\* The future of activity f fails an attempt with `kind`.
FutureFails(f, kind) ==
    v2Fut' = [v2Fut EXCEPT ![f] =
        IF StopsRetrying(PaymentV2RetryPolicy, @.attempt, kind)
        THEN [@ EXCEPT !.state = "failed", !.kind = kind]
        ELSE [@ EXCEPT !.attempt = @ + 1, !.kind = kind]]

\* An attempt of CheckFraudV2 ends.
CheckFraudV2Attempt ==
    /\ v2Fut["fraud"].state = "running"
    /\ \/ \E riskScore \in RiskScoresV2 :
            v2Fut' = [v2Fut EXCEPT !["fraud"].state = "ok", !["fraud"].value = riskScore]
       \/ \E kind \in FraudKinds : FutureFails("fraud", kind)
    /\ UNCHANGED <<v2Pc, v2Handled, v2Rounds, v2Fraud, v2Card, v2Charge, v2Out, v2Log>>
    /\ UNCHANGED <<scanVars, permVars, retryVars, orderVars, payVars, gatewayVars>>

\* An attempt of ValidateCard ends.
ValidateCardAttempt ==
    /\ v2Fut["card"].state = "running"
    /\ \/ \E valid \in BOOLEAN :
            v2Fut' = [v2Fut EXCEPT !["card"].state = "ok", !["card"].value = valid]
       \/ \E kind \in CardKinds : FutureFails("card", kind)
    /\ UNCHANGED <<v2Pc, v2Handled, v2Rounds, v2Fraud, v2Card, v2Charge, v2Out, v2Log>>
    /\ UNCHANGED <<scanVars, permVars, retryVars, orderVars, payVars, gatewayVars>>

\* selector.Select returns for a ready future that was not yet selected,
\* after running its callback: f.Get(ctx, &x) stores the result when the
\* activity succeeded and leaves x alone (its error is dropped) when it
\* failed.  When the loop ends the decision step runs in the same
\* resumption.
Select(f) ==
    LET fraudResult == IF f = "fraud" /\ v2Fut[f].state = "ok" THEN v2Fut[f].value ELSE v2Fraud
        cardValid == IF f = "card" /\ v2Fut[f].state = "ok" THEN v2Fut[f].value ELSE v2Card
    IN
    /\ v2Pc = "select"
    /\ v2Rounds < SelectRounds
    /\ v2Fut[f].state \in {"ok", "failed"}
    /\ \A i \in 1..Len(v2Handled) : v2Handled[i] # f
    /\ v2Handled' = Append(v2Handled, f)
    /\ v2Rounds' = v2Rounds + 1
    /\ v2Fraud' = fraudResult
    /\ v2Card' = cardValid
    /\ IF v2Rounds + 1 < SelectRounds
       THEN UNCHANGED <<v2Pc, v2Charge, v2Out, v2Log>>
       ELSE IF Declines(cardValid, fraudResult)
       THEN /\ v2Pc' = "done"
            /\ v2Out' = Returned(PaymentResult("", "DECLINED", ""), NoError)
            /\ UNCHANGED <<v2Charge, v2Log>>
       ELSE /\ v2Pc' = "charge"
            /\ v2Charge' = [v2Charge EXCEPT !.state = "running", !.attempt = 1]
            /\ v2Log' = Append(v2Log, Dispatch("ChargePaymentMethodV2", V2OrderId))
            /\ UNCHANGED v2Out
    /\ UNCHANGED v2Fut
    /\ UNCHANGED <<scanVars, permVars, retryVars, orderVars, payVars, gatewayVars>>

\* An attempt of ChargePaymentMethodV2 ends.  An attempt that times out may
\* have charged the customer before the timeout.
ChargePaymentMethodV2Attempt ==
    LET txn == TransactionID("v2", 1, Cardinality(charges) + 1)
        charge == [order |-> V2OrderId, child |-> "v2", run |-> 1, txn |-> txn]
    IN
    /\ v2Pc = "charge"
    /\ \/ /\ charges' = charges \cup {charge}
          /\ v2Pc' = "done"
          /\ v2Out' = Returned(PaymentResult(txn, "APPROVED", ""), NoError)
          /\ v2Charge' = [v2Charge EXCEPT !.state = "ok", !.value = txn]
       \/ \E kind \in PaymentKinds, committed \in BOOLEAN :
            /\ committed => (kind = "TimeoutError" /\ Cardinality(charges) < MaxLostCharges)
            /\ charges' = IF committed THEN charges \cup {charge} ELSE charges
            /\ IF StopsRetrying(PaymentV2RetryPolicy, v2Charge.attempt, kind)
               THEN /\ v2Pc' = "done"
                    /\ v2Out' = ChargeV2FailureReturn(ActivityError("ChargePaymentMethodV2", kind))
                    /\ v2Charge' = [v2Charge EXCEPT !.state = "failed", !.kind = kind]
               ELSE /\ v2Charge' = [v2Charge EXCEPT !.attempt = @ + 1, !.kind = kind]
                    /\ UNCHANGED <<v2Pc, v2Out>>
    /\ UNCHANGED <<v2Fut, v2Handled, v2Rounds, v2Fraud, v2Card, v2Log>>
    /\ UNCHANGED <<scanVars, permVars, retryVars, orderVars, payVars, refunds>>

(***************************************************************************)
(* Permission checks.                                                      *)
(***************************************************************************)
\* faulty variant: the wildcard is not honoured
hasPermissionExactOnly(permissions, required) ==
    \E i \in 1..Len(permissions) : permissions[i] = required

\* faulty variant: the gate lets every caller through
hasPermissionAlways(permissions, required) == TRUE

RECURSIVE hasPermissionFrom(_, _, _)
\* the loop of hasPermission from index i on
hasPermissionFrom(permissions, required, i) ==
    IF i > Len(permissions) THEN FALSE
    ELSE IF permissions[i] = required \/ permissions[i] = SecurityWildcard THEN TRUE
    ELSE hasPermissionFrom(permissions, required, i + 1)

hasPermission(permissions, required) == hasPermissionFrom(permissions, required, 1)

\* Array.prototype.includes
Includes(list, x) == \E i \in 1..Len(list) : list[i] = x

\* contextHasPermission: permission.includes(':') holds when the token has
\* more than one segment, and [category] = permission.split(':') is its first
\* segment
contextHasPermission(context, permission) ==
    IF Len(permission) > 1 /\ Includes(context.permissions, <<permission[1], "*">>)
    THEN TRUE
    ELSE Includes(context.permissions, permission)

\* requirePermission: TRUE when the middleware calls next(), FALSE when it
\* answers "Permission denied"
requirePermission(context, requiredPermission) ==
    IF Includes(context.permissions, requiredPermission) THEN TRUE
    ELSE IF Len(requiredPermission) > 1
            /\ Includes(context.permissions, <<requiredPermission[1], "*">>)
    THEN TRUE
    ELSE FALSE

\* AgentRegistryImpl.hasPermission for a registered agent whose
\* config.permissions is perms; permission.startsWith('security:') holds when
\* the first segment is "security" and another segment follows
AgentRegistryHasPermission(perms, permission) ==
    IF Includes(perms, SecurityWildcard)
       /\ Len(permission) > 1 /\ permission[1] = "security"
    THEN TRUE
    ELSE Includes(perms, permission)

PermissionIdle ==
    /\ permCtx = <<>>
    /\ permReq = <<>>
    /\ permGo = FALSE
    /\ permTs = FALSE
    /\ permMw = FALSE
    /\ permReg = FALSE

\* A permission list is asked about a required token; every check decides.
PermissionCheck ==
    /\ \E permissions \in PermissionLists, required \in PermissionTokens :
          /\ permCtx' = permissions
          /\ permReq' = required
          /\ permGo' = hasPermission(permissions, required)
          /\ permTs' = contextHasPermission([permissions |-> permissions], required)
          /\ permMw' = requirePermission([permissions |-> permissions], required)
          /\ permReg' = AgentRegistryHasPermission(permissions, required)
    /\ UNCHANGED <<orderVars, payVars, gatewayVars, v2Vars, scanVars, retryVars>>

(***************************************************************************)
(* SecurityScanWorkflow.                                                   *)
(***************************************************************************)
\* the cases of the switch over request.ScanTypes
ScanTypeNames == {"sast", "dast", "dependency", "secrets"}
InSwitch(scanType) == scanType \in ScanTypeNames
ScanActivity(scanType) ==
    CASE scanType = "sast" -> "RunSASTScan"
      [] scanType = "dast" -> "RunDASTScan"
      [] scanType = "dependency" -> "RunDependencyScan"
      [] scanType = "secrets" -> "RunSecretsScan"

Vulnerability(id, severity) == [ID |-> id, Severity |-> severity]
\* the vulnerability lists a scan of type t returns in the model
ScanOutcomes(t) ==
    { <<>>,
      << Vulnerability(t \o "-1", "critical") >>,
      << Vulnerability(t \o "-1", "high") >>,
      << Vulnerability(t \o "-1", "medium") >>,
      << Vulnerability(t \o "-1", "medium"), Vulnerability(t \o "-2", "critical") >> }

ScanMaximumAttempts == 2
ReportMaximumAttempts == 3
ScanRetryPolicy ==
    [InitialInterval |-> 5000, BackoffCoefficient |-> [num |-> 3, den |-> 2],
     MaximumInterval |-> 120000,
     MaximumAttempts |-> ScanMaximumAttempts, NonRetryableErrorTypes |-> {}]
ReportRetryPolicy == [MaximumAttempts |-> ReportMaximumAttempts, NonRetryableErrorTypes |-> {}]

\* a nil *SecurityScanResult, and &SecurityScanResult{...}
NilScanResult ==
    [nil |-> TRUE, ScanID |-> "", Status |-> "", Vulnerabilities |-> <<>>, ReportURL |-> ""]
ScanResult(scanId, status, vulns, url) ==
    [nil |-> FALSE, ScanID |-> scanId, Status |-> status, Vulnerabilities |-> vulns,
     ReportURL |-> url]
PermissionDeniedResult == ScanResult("", "PERMISSION_DENIED", <<>>, "")
NoScanOut == [done |-> FALSE, res |-> NilScanResult, err |-> NoError]

\* a zero ReportResult, and the one GenerateSecurityReport returns
NoReport == [state |-> "none", attempt |-> 0, ReportID |-> "", URL |-> ""]
ReportURL(reportID) == "https://security.example.com/reports/" \o reportID
NotificationRequest(count, scanId) ==
    [Type |-> "CRITICAL_VULNERABILITIES", Count |-> count, ScanID |-> scanId]

\* faulty variant: every vulnerability is counted
countBySeverityAll(vulns, severity) == Len(vulns)

countBySeverity(vulns, severity) ==
    Cardinality({i \in 1..Len(vulns) : vulns[i].Severity = severity})

\* faulty variant: the loop over "high" runs first
determineStatusHighFirst(vulns) ==
    IF \E i \in 1..Len(vulns) : vulns[i].Severity = "high" THEN "FAILED_HIGH"
    ELSE IF \E i \in 1..Len(vulns) : vulns[i].Severity = "critical" THEN "FAILED_CRITICAL"
    ELSE IF Len(vulns) > 0 THEN "PASSED_WITH_WARNINGS"
    ELSE "PASSED"

determineStatus(vulns) ==
    IF \E i \in 1..Len(vulns) : vulns[i].Severity = "critical" THEN "FAILED_CRITICAL"
    ELSE IF \E i \in 1..Len(vulns) : vulns[i].Severity = "high" THEN "FAILED_HIGH"
    ELSE IF Len(vulns) > 0 THEN "PASSED_WITH_WARNINGS"
    ELSE "PASSED"

\* the futures map after the fan-out loop: one entry per scan type that has
\* a case, whatever the number of times the type is listed
FanOutMap(types) ==
    [t \in ScanTypeNames |->
        IF \E i \in 1..Len(types) : types[i] = t
        THEN [state |-> "running", attempt |-> 1, value |-> <<>>, kind |-> ""]
        ELSE NoFuture(<<>>)]

\* the activities the fan-out loop dispatches, one per listed type with a case
FanOutLog(types) ==
    LET known == SelectSeq(types, InSwitch) IN
    [i \in 1..Len(known) |-> Dispatch(ScanActivity(known[i]), known[i])]

\* the futures the fan-out loop stored and then overwrote: an entry of the
\* map is assigned once per listing of its type, and the map keeps the last
\* (the requests of the model list a type twice at most)
Overwritten(types) ==
    [t \in ScanTypeNames |->
        IF Cardinality({i \in 1..Len(types) : types[i] = t}) > 1
        THEN [state |-> "running", attempt |-> 1, value |-> <<>>, kind |-> ""]
        ELSE NoFuture(<<>>)]

Keys(futures) == {t \in ScanTypeNames : futures[t].state # "none"}
Visited(visited) == {visited[i] : i \in 1..Len(visited)}

\* faulty variant: a failed scan empties the aggregate
CollectOneDropsAll(all, future) ==
    IF future.state = "failed" THEN <<>> ELSE all \o future.value

\* one iteration of the collect loop: `continue` on an error, append otherwise
CollectOne(all, future) ==
    IF future.state = "failed" THEN all ELSE all \o future.value

\* the orders in which `range futures` may yield the keys of the map
Iterations(futures) ==
    LET keys == Keys(futures)
        n == Cardinality(keys)
    IN {order \in [1..n -> keys] : \A i, j \in 1..n : order[i] = order[j] => i = j}

\* allVulnerabilities after the whole collect loop, for one iteration order
RECURSIVE CollectFrom(_, _, _, _)
CollectFrom(all, order, futures, i) ==
    IF i > Len(order) THEN all
    ELSE CollectFrom(CollectOne(all, futures[order[i]]), order, futures, i + 1)
CollectAll(order, futures) == CollectFrom(<<>>, order, futures, 1)

ScanIdle ==
    /\ sPc = "idle"
    /\ sPerms = <<>>
    /\ sTypes = <<>>
    /\ sFut = [t \in ScanTypeNames |-> NoFuture(<<>>)]
    /\ sLost = [t \in ScanTypeNames |-> NoFuture(<<>>)]
    /\ sCur = ""
    /\ sVisited = <<>>
    /\ sVulns = <<>>
    /\ sReport = NoReport
    /\ sNotify = "none"
    /\ sOut = NoScanOut
    /\ sLog = <<>>

\* The collect loop is over: GenerateSecurityReport is dispatched with the
\* aggregate and the code stops in its Get.
DispatchReport(log, vulns) ==
    /\ sPc' = "report"
    /\ sCur' = ""
    /\ sReport' = [NoReport EXCEPT !.state = "running", !.attempt = 1]
    /\ sLog' = Append(log, Dispatch("GenerateSecurityReport", vulns))

\* The workflow starts: the permission gate, then the fan-out loop, then the
\* collect loop up to its first Get.  The collect loop ranges over a map: the
\* key it takes next is any key it has not taken yet.
StartScan ==
    /\ sPc = "idle"
    /\ \E permissions \in ScanCallers, types \in ScanRequests :
          /\ sPerms' = permissions
          /\ sTypes' = types
          /\ IF ~hasPermission(permissions, ScanExecute)
             THEN /\ sPc' = "done"
                  /\ sOut' = Returned(PermissionDeniedResult, NoError)
                  /\ UNCHANGED <<sFut, sLost, sCur, sReport, sLog>>
             ELSE LET futures == FanOutMap(types)
                      log == FanOutLog(types)
                  IN
                  /\ sFut' = futures
                  /\ sLost' = Overwritten(types)
                  /\ IF Keys(futures) = {}
                     THEN DispatchReport(log, <<>>)
                     ELSE /\ \E first \in Keys(futures) : sCur' = first
                          /\ sPc' = "collect"
                          /\ sLog' = log
                          /\ UNCHANGED sReport
                  /\ UNCHANGED sOut
    /\ UNCHANGED <<sVisited, sVulns, sNotify>>
    /\ UNCHANGED <<orderVars, payVars, gatewayVars, v2Vars, permVars, retryVars>>

\* An attempt of the scan activity behind futures[t] ends.
ScanAttempt(t) ==
    /\ sFut[t].state = "running"
    /\ \/ \E vulns \in ScanOutcomes(t) :
            sFut' = [sFut EXCEPT ![t].state = "ok", ![t].value = vulns]
       \/ \E kind \in ScanKinds :
            sFut' = [sFut EXCEPT ![t] =
                IF StopsRetrying(ScanRetryPolicy, @.attempt, kind)
                THEN [@ EXCEPT !.state = "failed", !.kind = kind]
                ELSE [@ EXCEPT !.attempt = @ + 1]]
    /\ UNCHANGED <<sPc, sPerms, sTypes, sLost, sCur, sVisited, sVulns, sReport, sNotify, sOut, sLog>>
    /\ UNCHANGED <<orderVars, payVars, gatewayVars, v2Vars, permVars, retryVars>>

\* An attempt of a scan activity whose future was overwritten in the map
\* ends; the workflow holds no reference to it.
OverwrittenScanAttempt(t) ==
    /\ sLost[t].state = "running"
    /\ \/ \E vulns \in ScanOutcomes(t) :
            sLost' = [sLost EXCEPT ![t].state = "ok", ![t].value = vulns]
       \/ \E kind \in ScanKinds :
            sLost' = [sLost EXCEPT ![t] =
                IF StopsRetrying(ScanRetryPolicy, @.attempt, kind)
                THEN [@ EXCEPT !.state = "failed", !.kind = kind]
                ELSE [@ EXCEPT !.attempt = @ + 1]]
    /\ UNCHANGED <<sPc, sPerms, sTypes, sFut, sCur, sVisited, sVulns, sReport, sNotify,
                   sOut, sLog>>
    /\ UNCHANGED <<orderVars, payVars, gatewayVars, v2Vars, permVars, retryVars>>

\* future.Get of the collect loop returns for the key the loop waits for; the
\* loop goes on to its next key, or ends and the report is dispatched.
Collect ==
    /\ sPc = "collect"
    /\ sFut[sCur].state \in {"ok", "failed"}
    /\ LET vulns == CollectOne(sVulns, sFut[sCur])
           visited == Append(sVisited, sCur)
           rest == Keys(sFut) \ Visited(visited)
       IN
       /\ sVulns' = vulns
       /\ sVisited' = visited
       /\ IF rest = {}
          THEN DispatchReport(sLog, vulns)
          ELSE /\ \E next \in rest : sCur' = next
               /\ UNCHANGED <<sPc, sReport, sLog>>
    /\ UNCHANGED <<sPerms, sTypes, sLost, sFut, sNotify, sOut>>
    /\ UNCHANGED <<orderVars, payVars, gatewayVars, v2Vars, permVars, retryVars>>

\* GenerateSecurityReport(...).Get returned with reportResult (the zero value
\* after a failure, which is only logged): the notification is dispatched
\* when there are critical vulnerabilities, and the workflow returns.
ScanReturns(reportResult) ==
    LET criticalCount == countBySeverity(sVulns, "critical") IN
    /\ sPc' = "done"
    /\ IF criticalCount > 0
       THEN /\ sNotify' = "dispatched"
            /\ sLog' = Append(sLog, Dispatch("NotifyComplianceTeam",
                                NotificationRequest(criticalCount, reportResult.ReportID)))
       ELSE UNCHANGED <<sNotify, sLog>>
    /\ sOut' = Returned(ScanResult(reportResult.ReportID, determineStatus(sVulns), sVulns,
                                   reportResult.URL),
                        NoError)

\* the reportResult variable when Get has left it untouched
ZeroReportResult == [ReportID |-> "", URL |-> ""]

\* faulty variant: a report failure is returned as the workflow's error
ReportFailureIsFatal(kind) ==
    /\ sPc' = "done"
    /\ sOut' = Returned(NilScanResult, ActivityError("GenerateSecurityReport", kind))
    /\ UNCHANGED <<sNotify, sLog>>

\* GenerateSecurityReport failed for good: the error is logged and the code
\* goes on with the zero reportResult.
ReportFailure(kind) == ScanReturns(ZeroReportResult)

\* An attempt of GenerateSecurityReport ends.
GenerateSecurityReportAttempt ==
    /\ sPc = "report"
    /\ \/ \E reportID \in ReportIds :
            LET reportResult == [ReportID |-> reportID, URL |-> ReportURL(reportID)] IN
            /\ sReport' = [sReport EXCEPT !.state = "ok", !.ReportID = reportResult.ReportID,
                                          !.URL = reportResult.URL]
            /\ ScanReturns(reportResult)
       \/ \E kind \in ScanKinds :
            IF StopsRetrying(ReportRetryPolicy, sReport.attempt, kind)
            THEN /\ sReport' = [sReport EXCEPT !.state = "failed"]
                 /\ ReportFailure(kind)
            ELSE /\ sReport' = [sReport EXCEPT !.attempt = @ + 1]
                 /\ UNCHANGED <<sPc, sNotify, sOut, sLog>>
    /\ UNCHANGED <<sPerms, sTypes, sLost, sFut, sCur, sVisited, sVulns>>
    /\ UNCHANGED <<orderVars, payVars, gatewayVars, v2Vars, permVars, retryVars>>

\* The fire-and-forget NotifyComplianceTeam ends; nothing waits for it.
NotifyComplianceTeamEnds ==
    /\ sNotify = "dispatched"
    /\ \E outcome \in {"ok", "failed"} : sNotify' = outcome
    /\ UNCHANGED <<sPc, sPerms, sTypes, sLost, sFut, sCur, sVisited, sVulns, sReport, sOut, sLog>>
    /\ UNCHANGED <<orderVars, payVars, gatewayVars, v2Vars, permVars, retryVars>>

OrderIdle ==
    /\ oPc = [w \in Executions |-> "idle"]
    /\ oReq = [w \in Executions |-> ""]
    /\ oAttempt = [w \in Executions |-> 0]
    /\ oInv = [w \in Executions |-> [ok |-> FALSE, Available |-> FALSE]]
    /\ oChildOut = [w \in Executions |-> [res |-> NilPaymentResult, err |-> NoError]]
    /\ oShip = [w \in Executions |-> ""]
    /\ oShipErr = [w \in Executions |-> NoError]
    /\ oRefund = [w \in Executions |-> "none"]
    /\ oOut = [w \in Executions |-> Pending]
    /\ oLog = [w \in Executions |-> <<>>]
    /\ pPc = [c \in ChildIds |-> "none"]
    /\ pRun = [c \in ChildIds |-> 0]
    /\ pParent = [c \in ChildIds |-> ""]
    /\ pAttempt = [c \in ChildIds |-> 0]
    /\ pLast = [c \in ChildIds |-> ""]
    /\ pQueue = [c \in ChildIds |-> ""]
    /\ pFraud = [c \in ChildIds |-> 0]
    /\ pErr = [c \in ChildIds |-> NoError]
    /\ pCharge = [c \in ChildIds |-> ""]
    /\ pOut = [c \in ChildIds |-> NoPaymentOut]
    /\ pConf = [c \in ChildIds |-> "none"]
    /\ pLog = [c \in ChildIds |-> <<>>]
    /\ charges = {}
    /\ refunds = {}

(***************************************************************************)
(* The retry evaluator on the policies of the workflows.                   *)
(***************************************************************************)
\* the policies that set their intervals
RetryPolicies ==
    [Order |-> OrderRetryPolicy, Payment |-> PaymentRetryPolicy,
     PaymentV2 |-> PaymentV2RetryPolicy, Scan |-> ScanRetryPolicy]
RetryKinds == TransientKinds \cup PaymentKinds \cup FraudKinds \cup CardKinds

NoRetryCall ==
    [policy |-> "", attempt |-> 0, kind |-> "", stop |-> FALSE, delay |-> 0, previous |-> 0]
RetryIdle == rCall = NoRetryCall

\* Attempt number `attempt` of an activity under one of the policies failed
\* with `kind`: the evaluator says whether the invocation stops, and the
\* interval the policy gives after this attempt and after the one before it.
RetryDecision ==
    /\ \E name \in DOMAIN RetryPolicies, attempt \in 1..MaxAttemptNumber, kind \in RetryKinds :
          LET policy == RetryPolicies[name] IN
          rCall' = [policy |-> name, attempt |-> attempt, kind |-> kind,
                    stop |-> StopsRetrying(policy, attempt, kind),
                    delay |-> BackoffInterval(policy, attempt),
                    previous |-> IF attempt = 1 THEN 0
                                 ELSE BackoffInterval(policy, attempt - 1)]
    /\ UNCHANGED <<orderVars, payVars, gatewayVars, v2Vars, scanVars, permVars>>

Init == OrderIdle /\ V2Idle /\ ScanIdle /\ PermissionIdle /\ RetryIdle

NextOrder ==
    \/ \E w \in Executions : StartOrder(w)
    \/ \E w \in Executions : ValidateInventoryAttempt(w)
    \/ \E w \in Executions : StartChild(w)
    \/ \E w \in Executions : OrderAfterChild(w)
    \/ \E w \in Executions : GenerateShippingLabelAttempt(w)
    \/ \E w \in Executions : RefundPaymentAttempt(w)
    \/ \E c \in ChildIds : CheckFraudAttempt(c)
    \/ \E c \in ChildIds : ChargePaymentMethodAttempt(c)
    \/ \E c \in ChildIds : SendPaymentConfirmationEnds(c)
    \/ \E c \in ChildIds : TerminateChild(c)

SpecOrder == Init /\ [][NextOrder]_vars

\* OrderWorkflow with cancellation requests from outside
NextOrderCancel ==
    \/ NextOrder
    \/ \E w \in Executions : CancelOrder(w)

SpecOrderCancel == Init /\ [][NextOrderCancel]_vars

NextPaymentV2 ==
    \/ StartPaymentV2
    \/ CheckFraudV2Attempt
    \/ ValidateCardAttempt
    \/ \E f \in Futures : Select(f)
    \/ ChargePaymentMethodV2Attempt

SpecPaymentV2 == Init /\ [][NextPaymentV2]_vars

NextSecurityScan ==
    \/ StartScan
    \/ \E t \in ScanTypeNames : ScanAttempt(t)
    \/ \E t \in ScanTypeNames : OverwrittenScanAttempt(t)
    \/ Collect
    \/ GenerateSecurityReportAttempt
    \/ NotifyComplianceTeamEnds

SpecSecurityScan == Init /\ [][NextSecurityScan]_vars

NextPermission == PermissionCheck

NextRetry == RetryDecision

SpecRetry == Init /\ [][NextRetry]_vars

\* The three workflows under one specification: an execution of one of them
\* runs while the other two have not been started.
OrderNotStarted == \A w \in Executions : oPc[w] = "idle"

NextWorkflows ==
    \/ V2Idle /\ ScanIdle /\ NextOrder
    \/ OrderNotStarted /\ ScanIdle /\ NextPaymentV2
    \/ OrderNotStarted /\ V2Idle /\ NextSecurityScan

SpecWorkflows == Init /\ [][NextWorkflows]_vars

\* The workflows with the engine's scheduling: an attempt that was dispatched
\* ends, a started child is run, a completed future resumes the workflow
\* that waits for it.  Starting a workflow and terminating a child are left
\* to the environment.
Fairness ==
    /\ \A w \in Executions :
          /\ WF_vars(ValidateInventoryAttempt(w))
          /\ WF_vars(StartChild(w))
          /\ WF_vars(OrderAfterChild(w))
          /\ WF_vars(GenerateShippingLabelAttempt(w))
          /\ WF_vars(RefundPaymentAttempt(w))
    /\ \A c \in ChildIds :
          /\ WF_vars(CheckFraudAttempt(c))
          /\ WF_vars(ChargePaymentMethodAttempt(c))
          /\ WF_vars(SendPaymentConfirmationEnds(c))
    /\ WF_vars(CheckFraudV2Attempt)
    /\ WF_vars(ValidateCardAttempt)
    /\ \A f \in Futures : WF_vars(Select(f))
    /\ WF_vars(ChargePaymentMethodV2Attempt)
    /\ \A t \in ScanTypeNames :
          /\ WF_vars(ScanAttempt(t))
          /\ WF_vars(OverwrittenScanAttempt(t))
    /\ WF_vars(Collect)
    /\ WF_vars(GenerateSecurityReportAttempt)
    /\ WF_vars(NotifyComplianceTeamEnds)

FairSpecWorkflows == SpecWorkflows /\ Fairness

SpecPermission == Init /\ [][NextPermission]_vars

(***************************************************************************)
(* Properties of OrderWorkflow (checked under SpecOrder).                  *)
(***************************************************************************)
Dispatched(w, name) == \E i \in 1..Len(oLog[w]) : oLog[w][i].name = name
DispatchesOf(w, name) == {i \in 1..Len(oLog[w]) : oLog[w][i].name = name}

\* ExecuteChildWorkflow(...).Get returned a result and no error
ChildReturned(w) == oChildOut[w].err = NoError /\ ~oChildOut[w].res.nil
ChildApproved(w) == ChildReturned(w) /\ oChildOut[w].res.Status = "APPROVED"
\* GenerateShippingLabel failed terminally
ShippingFailed(w) == oShipErr[w] # NoError
Ended(w) == oPc[w] = "done" /\ oOut[w].done

\* C1: in every execution RefundPayment is dispatched if and only if the
\* payment child returned APPROVED and GenerateShippingLabel then failed
\* terminally; an execution that ended on the inventory-unavailable,
\* payment-declined, inventory-error, child-error or completed path has
\* dispatched no RefundPayment.
Thm_C1_RefundIffApprovedAndShippingFailed ==
    \A w \in Executions :
        /\ Dispatched(w, "RefundPayment") <=> (ChildApproved(w) /\ ShippingFailed(w))
        /\ ( /\ Ended(w)
             /\ \/ oOut[w].res.Status \in {"INVENTORY_UNAVAILABLE", "PAYMENT_DECLINED", "COMPLETED"}
                \/ oOut[w].err.activity \in {"ValidateInventory", "PaymentWorkflow"} )
           => ~Dispatched(w, "RefundPayment")

Wit_C1_RefundDispatched ==
    \E w \in Executions :
        Ended(w) /\ Dispatched(w, "RefundPayment") /\ ChildApproved(w) /\ ShippingFailed(w)

\* C2: when GenerateShippingLabel fails terminally, RefundPayment is
\* dispatched once, with the transaction id the payment child returned (the
\* id of a charge of this order); the workflow ends only after the refund
\* invocation ended, and it ends with a nil result and the shipping error,
\* whether the refund succeeded or failed.
Thm_C2_ShippingErrorSurvivesRefund ==
    \A w \in Executions :
        ShippingFailed(w) =>
            /\ Cardinality(DispatchesOf(w, "RefundPayment")) = 1
            /\ \A i \in DispatchesOf(w, "RefundPayment") :
                  /\ oLog[w][i].arg = oChildOut[w].res.TransactionID
                  /\ \E ch \in charges : ch.txn = oLog[w][i].arg /\ ch.order = oReq[w]
            /\ oPc[w] \in {"refund", "done"}
            /\ Ended(w) =>
                  /\ oRefund[w] \in {"ok", "failed"}
                  /\ oOut[w].res.nil
                  /\ oOut[w].err = oShipErr[w]
                  /\ oOut[w].err.activity = "GenerateShippingLabel"

Wit_C2_RefundFailedShippingErrorReturned ==
    \E w \in Executions :
        Ended(w) /\ ShippingFailed(w) /\ oRefund[w] = "failed" /\ oOut[w].err = oShipErr[w]

\* C3: when ValidateInventory returns Available=false the workflow returns
\* INVENTORY_UNAVAILABLE with no error, and the execution has dispatched
\* nothing but ValidateInventory: no payment child run belongs to it, and no
\* shipping-label or refund activity.
Thm_C3_UnavailableStartsNothing ==
    \A w \in Executions :
        (oInv[w].ok /\ ~oInv[w].Available) =>
            /\ Ended(w)
            /\ oOut[w] = Returned(OrderResult(oReq[w], "INVENTORY_UNAVAILABLE", "", ""), NoError)
            /\ oLog[w] = <<Dispatch("ValidateInventory", "items")>>
            /\ \A c \in ChildIds : pParent[c] # w
            /\ oRefund[w] = "none"

Wit_C3_InventoryUnavailable ==
    \E w \in Executions :
        oInv[w].ok /\ ~oInv[w].Available /\ oOut[w].res.Status = "INVENTORY_UNAVAILABLE"

\* C4: two executions with the same orderId address the same payment child:
\* both dispatch the child under the id "payment-"+orderId, and the customer
\* is not charged twice for the order: at most one payment run under that id
\* charges it (which is the least that "at most one payment child instance
\* exists for that id" asks for).
Cex_C4_SameOrderIdOneChildOneCharge ==
    \A w1, w2 \in Executions :
        (w1 # w2 /\ oReq[w1] # "" /\ oReq[w1] = oReq[w2]) =>
            /\ \A w \in {w1, w2} : \A i \in DispatchesOf(w, "PaymentWorkflow") :
                  oLog[w][i].arg = "payment-" \o oReq[w1]
            /\ Cardinality({ch.run : ch \in {x \in charges : x.order = oReq[w1]}}) <= 1

\* C5: when the payment child returned no error and a status other than
\* APPROVED, GenerateShippingLabel is never dispatched, and once the parent
\* has resumed it has returned PAYMENT_DECLINED with no error, carrying the
\* child's transaction id as PaymentID.
Thm_C5_NotApprovedIsDeclined ==
    \A w \in Executions :
        (ChildReturned(w) /\ oChildOut[w].res.Status # "APPROVED") =>
            /\ ~Dispatched(w, "GenerateShippingLabel")
            /\ oPc[w] \in {"childDone", "done"}
            /\ Ended(w) =>
                  oOut[w] = Returned(OrderResult(oReq[w], "PAYMENT_DECLINED",
                                                 oChildOut[w].res.TransactionID, ""),
                                     NoError)

Wit_C5_ChargeFailedDeclined ==
    \E w \in Executions :
        /\ Ended(w) /\ ChildReturned(w)
        /\ oChildOut[w].res.Status = "CHARGE_FAILED"
        /\ oOut[w].res.Status = "PAYMENT_DECLINED"

\* C6: when inventory was available, the payment child returned APPROVED with
\* transaction id T (the id of a charge of this order) and
\* GenerateShippingLabel succeeded with tracking number K, the workflow has
\* returned COMPLETED with PaymentID = T and ShippingLabel = K and no error.
Thm_C6_CompletedCarriesPaymentAndLabel ==
    \A w \in Executions :
        (oInv[w].ok /\ oInv[w].Available /\ ChildApproved(w) /\ oShip[w] # "") =>
            /\ Ended(w)
            /\ oOut[w].err = NoError
            /\ ~oOut[w].res.nil
            /\ oOut[w].res.OrderID = oReq[w]
            /\ oOut[w].res.Status = "COMPLETED"
            /\ oOut[w].res.PaymentID = oChildOut[w].res.TransactionID
            /\ oOut[w].res.ShippingLabel = oShip[w]
            /\ \E ch \in charges : ch.txn = oOut[w].res.PaymentID /\ ch.order = oReq[w]

Wit_C6_Completed ==
    \E w \in Executions :
        /\ Ended(w) /\ ChildApproved(w)
        /\ oOut[w].res.Status = "COMPLETED"
        /\ oOut[w].res.ShippingLabel \in TrackingNumbers
        /\ oOut[w].res.PaymentID # ""

\* The state of the order state machine an execution is in.
StateOf(w) ==
    CASE oPc[w] = "idle" -> "NOT_STARTED"
      [] oPc[w] = "inventory" -> "STARTED"
      [] oPc[w] \in {"childStart", "child", "childDone"} -> "PAYMENT_PENDING"
      [] oPc[w] = "shipping" -> "SHIPPING_PENDING"
      [] oPc[w] = "refund" -> "COMPENSATING"
      [] oPc[w] = "done" /\ oOut[w].err = NoError -> oOut[w].res.Status
      [] oPc[w] = "done" /\ oOut[w].err # NoError /\ oRefund[w] # "none" -> "FAILED_COMPENSATED"
      [] OTHER -> "FAILED"

TerminalStates ==
    {"INVENTORY_UNAVAILABLE", "PAYMENT_DECLINED", "COMPLETED", "FAILED_COMPENSATED", "FAILED"}

\* the edges of the state machine; FAILED is the exit of a step whose error
\* is returned (ValidateInventory, the payment child)
Edges ==
    { <<"NOT_STARTED", "STARTED">>,
      <<"STARTED", "INVENTORY_UNAVAILABLE">>, <<"STARTED", "PAYMENT_PENDING">>,
      <<"STARTED", "FAILED">>,
      <<"PAYMENT_PENDING", "PAYMENT_DECLINED">>, <<"PAYMENT_PENDING", "SHIPPING_PENDING">>,
      <<"PAYMENT_PENDING", "FAILED">>,
      <<"SHIPPING_PENDING", "COMPLETED">>, <<"SHIPPING_PENDING", "COMPENSATING">>,
      <<"COMPENSATING", "FAILED_COMPENSATED">> }

DispatchNames(w) == [i \in 1..Len(oLog[w]) |-> oLog[w][i].name]

\* what an execution in a given state has dispatched, and on what grounds
DispatchesMatchState(w) ==
    LET st == StateOf(w)
        names == DispatchNames(w)
    IN
    /\ st = "NOT_STARTED" => names = <<>>
    /\ st \in {"STARTED", "INVENTORY_UNAVAILABLE"} => names = <<"ValidateInventory">>
    /\ st \in {"PAYMENT_PENDING", "PAYMENT_DECLINED"} =>
          names = <<"ValidateInventory", "PaymentWorkflow">>
    /\ st \in {"SHIPPING_PENDING", "COMPLETED"} =>
          names = <<"ValidateInventory", "PaymentWorkflow", "GenerateShippingLabel">>
    /\ st \in {"COMPENSATING", "FAILED_COMPENSATED"} =>
          names = <<"ValidateInventory", "PaymentWorkflow", "GenerateShippingLabel",
                    "RefundPayment">>
    /\ st = "FAILED" =>
          names \in {<<"ValidateInventory">>, <<"ValidateInventory", "PaymentWorkflow">>}
    /\ Dispatched(w, "PaymentWorkflow") => (oInv[w].ok /\ oInv[w].Available)
    /\ Dispatched(w, "GenerateShippingLabel") => ChildApproved(w)
    /\ st \notin ({"NOT_STARTED", "STARTED", "PAYMENT_PENDING", "SHIPPING_PENDING",
                   "COMPENSATING"} \cup TerminalStates) => FALSE

\* C7: every step of every execution moves along an edge of the state machine
\* STARTED -> {INVENTORY_UNAVAILABLE | PAYMENT_PENDING -> {PAYMENT_DECLINED |
\* SHIPPING_PENDING -> {COMPLETED | compensated failure}}} (or to the failure
\* exit of a step whose error is returned); the child is dispatched only after
\* ValidateInventory returned available, GenerateShippingLabel only after the
\* child returned APPROVED, each step is dispatched once and in order, and an
\* execution in a terminal state changes no more and dispatches nothing.
Thm_C7_OrderStateMachine ==
    [][\A w \in Executions :
          /\ StateOf(w)' = StateOf(w) \/ <<StateOf(w), StateOf(w)'>> \in Edges
          /\ DispatchesMatchState(w)'
          /\ StateOf(w) \in TerminalStates =>
                (oLog'[w] = oLog[w] /\ oOut'[w] = oOut[w] /\ StateOf(w)' = StateOf(w))
      ]_vars

Wit_C7_CompensatedFailure ==
    \E w \in Executions :
        /\ StateOf(w) = "FAILED_COMPENSATED"
        /\ DispatchNames(w) = <<"ValidateInventory", "PaymentWorkflow", "GenerateShippingLabel",
                                "RefundPayment">>

(***************************************************************************)
(* Properties of PaymentWorkflow v1 (checked under SpecOrder); they are    *)
(* about the current run of every payment workflow id.                     *)
(***************************************************************************)
PayDispatched(c, name) == \E i \in 1..Len(pLog[c]) : pLog[c][i].name = name
\* CheckFraud returned a risk score
FraudChecked(c) == pFraud[c] \in RiskScores
PayReturnedStatus(c, status) ==
    pOut[c].done /\ pOut[c].err = NoError /\ ~pOut[c].res.nil /\ pOut[c].res.Status = status

\* C11: once CheckFraud has returned risk score r, the run has returned
\* FRAUD_SUSPECTED with no error if and only if r > 0.8, and then no charge
\* was dispatched; with r <= 0.8 (0.8 itself included) ChargePaymentMethod has
\* been dispatched.  FRAUD_SUSPECTED is returned on no other ground.
Thm_C11_SuspectedIffAboveThreshold ==
    \A c \in ChildIds :
        /\ FraudChecked(c) =>
              /\ PayReturnedStatus(c, "FRAUD_SUSPECTED") <=> pFraud[c] > 80
              /\ PayDispatched(c, "ChargePaymentMethod") <=> pFraud[c] <= 80
        /\ PayReturnedStatus(c, "FRAUD_SUSPECTED") => FraudChecked(c)

Wit_C11_ThresholdProceedsToCharge ==
    \E c \in ChildIds :
        /\ pFraud[c] = 80 /\ pPc[c] = "charge"
        /\ ~pOut[c].done
        /\ pLog[c][Len(pLog[c])].name = "ChargePaymentMethod"

\* C12: when ChargePaymentMethod has failed terminally the run has returned
\* CHARGE_FAILED, and when CheckFraud has failed terminally it has returned
\* FRAUD_CHECK_FAILED; in both cases the result carries the text of the error
\* as ErrorMessage, has no transaction id, and the workflow error is nil.
Thm_C12_ActivityFailureIsSoftStatusWithMessage ==
    \A c \in ChildIds :
        /\ pErr[c].activity = "ChargePaymentMethod" =>
              pOut[c] = Returned(PaymentResult("", "CHARGE_FAILED",
                                               "ChargePaymentMethod: " \o pErr[c].kind),
                                 NoError)
        /\ pErr[c].activity = "CheckFraud" =>
              pOut[c] = Returned(PaymentResult("", "FRAUD_CHECK_FAILED",
                                               "CheckFraud: " \o pErr[c].kind),
                                 NoError)

Wit_C12_FraudCheckFailedSoft ==
    \E c \in ChildIds :
        /\ pErr[c] = ActivityError("CheckFraud", "FraudDetectedError")
        /\ PayReturnedStatus(c, "FRAUD_CHECK_FAILED")
        /\ pOut[c].res.ErrorMessage # ""

\* C13, as stated: a ChargePaymentMethod call after a successful fraud screen
\* that fails with a kind outside the non-retryable set, its attempts
\* exhausted, ends the run with a workflow error; every other terminal
\* activity error ends it with a soft status.
Cex_C13_ExhaustedChargeIsWorkflowError ==
    \A c \in ChildIds :
        pErr[c] # NoError =>
            IF /\ pErr[c].activity = "ChargePaymentMethod"
               /\ FraudChecked(c)
               /\ pErr[c].kind \notin {"FraudDetectedError", "InsufficientFundsError"}
            THEN pOut[c].done /\ pOut[c].err # NoError
            ELSE pOut[c].done /\ pOut[c].err = NoError /\ ~pOut[c].res.nil

\* C13, amended: every terminal activity error of the run, of CheckFraud or
\* of ChargePaymentMethod, of a non-retryable kind or after the attempts are
\* exhausted, ends the run with a soft status and a nil workflow error; a
\* run that ended with a workflow error had no activity fail terminally.
Thm_C13_EveryActivityErrorIsSoft ==
    \A c \in ChildIds :
        /\ pErr[c] # NoError =>
              /\ pOut[c].done /\ pOut[c].err = NoError /\ ~pOut[c].res.nil
              /\ pOut[c].res.Status \in {"FRAUD_CHECK_FAILED", "CHARGE_FAILED"}
        /\ (pOut[c].done /\ pOut[c].err # NoError) =>
              (pErr[c] = NoError /\ pOut[c].res.nil)

Wit_C13_ExhaustedChargeSoft ==
    \E c \in ChildIds :
        /\ pErr[c] = ActivityError("ChargePaymentMethod", "TimeoutError")
        /\ FraudChecked(c) /\ pFraud[c] <= 80
        /\ PayReturnedStatus(c, "CHARGE_FAILED")

\* C14: the run has returned APPROVED if and only if CheckFraud returned a
\* risk score of at most 0.8 and ChargePaymentMethod succeeded; the result
\* then carries the transaction id of that charge, SendPaymentConfirmation
\* was dispatched with that id as the last step, and the result is there
\* and the same while the confirmation is running, after it succeeded and
\* after it failed.
Thm_C14_ApprovedIffScreenedAndCharged ==
    \A c \in ChildIds :
        /\ PayReturnedStatus(c, "APPROVED") <=>
              (FraudChecked(c) /\ pFraud[c] <= 80 /\ pCharge[c] # "")
        /\ pCharge[c] # "" =>
              /\ pOut[c] = Returned(PaymentResult(pCharge[c], "APPROVED", ""), NoError)
              /\ \E ch \in charges : ch.txn = pCharge[c] /\ ch.child = c /\ ch.run = pRun[c]
              /\ pLog[c][Len(pLog[c])] = Dispatch("SendPaymentConfirmation", pCharge[c])
              /\ pConf[c] \in {"dispatched", "ok", "failed"}
        /\ pCharge[c] = "" => pConf[c] = "none"

Wit_C14_ApprovedConfirmationFailed ==
    \E c \in ChildIds :
        /\ PayReturnedStatus(c, "APPROVED")
        /\ pConf[c] = "failed"
        /\ oChildOut[pParent[c]].res.TransactionID = pCharge[c]

(***************************************************************************)
(* Properties of PaymentWorkflowV2 (checked under SpecPaymentV2).          *)
(***************************************************************************)
FutureDone(f) == v2Fut[f].state \in {"ok", "failed"}
V2Declined == v2Out.done /\ v2Out.err = NoError /\ ~v2Out.res.nil /\ v2Out.res.Status = "DECLINED"
V2Dispatched(name) == \E i \in 1..Len(v2Log) : v2Log[i].name = name

\* C8: the workflow returns DECLINED with no error if and only if cardValid is
\* false or the risk score is greater than 0.75, in either completion order of
\* CheckFraudV2 and ValidateCard; cardValid and the risk score are the values
\* the two activities returned when both succeeded (a failed activity leaves
\* the zero value: false, 0).  A score of exactly 0.75 with a valid card is
\* not declined.
Thm_C8_DeclinedIffInvalidOrRisky ==
    v2Out.done =>
        /\ V2Declined <=> (~v2Card \/ v2Fraud > 75)
        /\ v2Fut["card"].state = "ok" => v2Card = v2Fut["card"].value
        /\ v2Fut["fraud"].state = "ok" => v2Fraud = v2Fut["fraud"].value
        /\ v2Fut["card"].state = "failed" => v2Card = FALSE
        /\ v2Fut["fraud"].state = "failed" => v2Fraud = 0
        /\ (v2Fut["card"].state = "ok" /\ v2Fut["fraud"].state = "ok") =>
              (V2Declined <=> (~v2Fut["card"].value \/ v2Fut["fraud"].value > 75))

Wit_C8_ThresholdNotDeclinedCardFirst ==
    /\ v2Out.done /\ ~V2Declined
    /\ v2Handled = <<"card", "fraud">>
    /\ v2Fut["card"].state = "ok" /\ v2Fut["card"].value = TRUE
    /\ v2Fut["fraud"].state = "ok" /\ v2Fut["fraud"].value = 75

\* C9: the decision step has run (the workflow waits for the charge or has
\* returned) only when both futures are completed, the selector has run the
\* callback of each exactly once, and the result of every successful future
\* is stored; until then the workflow stays in the Select loop.
Thm_C9_DecisionAfterBothResults ==
    (v2Pc \in {"charge", "done"} \/ v2Out.done \/ V2Dispatched("ChargePaymentMethodV2")) =>
        /\ \A f \in Futures : FutureDone(f)
        /\ v2Handled \in {<<"fraud", "card">>, <<"card", "fraud">>}
        /\ v2Fut["card"].state = "ok" => v2Card = v2Fut["card"].value
        /\ v2Fut["fraud"].state = "ok" => v2Fraud = v2Fut["fraud"].value

Wit_C9_DecidedFraudFirst ==
    /\ v2Pc = "charge"
    /\ v2Handled = <<"fraud", "card">>
    /\ \A f \in Futures : v2Fut[f].state = "ok"

\* C10: when cardValid is true and the risk score is at most 0.75 after the
\* join, ChargePaymentMethodV2 is dispatched (once); when it has failed
\* terminally the workflow has returned that error and a nil result, and when
\* it has succeeded the workflow has returned APPROVED with the transaction
\* id of the charge and no error.
Thm_C10_ChargeFailureIsHardError ==
    /\ (Len(v2Handled) = 2 /\ v2Card /\ v2Fraud <= 75) =>
          /\ Cardinality({i \in 1..Len(v2Log) : v2Log[i].name = "ChargePaymentMethodV2"}) = 1
          /\ v2Charge.state \in {"running", "ok", "failed"}
    /\ v2Charge.state = "failed" =>
          /\ v2Out.done
          /\ v2Out.res.nil
          /\ v2Out.err = ActivityError("ChargePaymentMethodV2", v2Charge.kind)
    /\ v2Charge.state = "ok" =>
          /\ v2Out.done
          /\ v2Out.err = NoError
          /\ v2Out.res = PaymentResult(v2Charge.value, "APPROVED", "")
          /\ \E ch \in charges : ch.txn = v2Out.res.TransactionID
    /\ v2Charge.state = "running" => ~v2Out.done

Wit_C10_ChargeFailedHardError ==
    /\ v2Charge.state = "failed"
    /\ v2Out.done /\ v2Out.res.nil
    /\ v2Out.err.activity = "ChargePaymentMethodV2"

(***************************************************************************)
(* Properties of SecurityScanWorkflow (checked under SpecSecurityScan).    *)
(***************************************************************************)
ElementsOf(list) == {list[i] : i \in 1..Len(list)}
ScanDispatches(name) == {i \in 1..Len(sLog) : sLog[i].name = name}
\* the workflow returned past the permission gate
ScanCompleted == sOut.done /\ sOut.res.Status # "PERMISSION_DENIED"
Severe(list, severity) == \E i \in 1..Len(list) : list[i].Severity = severity
Permuted(list, f) == [i \in 1..Len(list) |-> list[f[i]]]
PermutationsOf(n) == {f \in [1..n -> 1..n] : \A i, j \in 1..n : f[i] = f[j] => i = j}

Thm_C18_StatusBySeverityPriority ==
    ScanCompleted =>
        LET list == sOut.res.Vulnerabilities IN
        /\ sOut.res.Status =
              ( IF Severe(list, "critical") THEN "FAILED_CRITICAL"
                ELSE IF Severe(list, "high") THEN "FAILED_HIGH"
                ELSE IF list # <<>> THEN "PASSED_WITH_WARNINGS"
                ELSE "PASSED" )
        /\ \A f \in PermutationsOf(Len(list)) :
              determineStatus(Permuted(list, f)) = sOut.res.Status

Wit_C18_CriticalAfterHigh ==
    /\ ScanCompleted
    /\ sOut.res.Status = "FAILED_CRITICAL"
    /\ Len(sOut.res.Vulnerabilities) = 2
    /\ sOut.res.Vulnerabilities[1].Severity = "high"
    /\ sOut.res.Vulnerabilities[2].Severity = "critical"

\* C19: NotifyComplianceTeam is dispatched once when the aggregated list
\* holds a critical vulnerability and not at all otherwise, never before the
\* report step is over; the notification carries the number of critical
\* vulnerabilities and the report id of the result, and the workflow has
\* returned while the notification is still running.
Thm_C19_NotifiesOnceIffCritical ==
    LET criticals == {i \in 1..Len(sVulns) : sVulns[i].Severity = "critical"} IN
    /\ ~sOut.done => (ScanDispatches("NotifyComplianceTeam") = {} /\ sNotify = "none")
    /\ ScanCompleted =>
          /\ Cardinality(ScanDispatches("NotifyComplianceTeam")) =
                (IF criticals # {} THEN 1 ELSE 0)
          /\ sNotify = "none" <=> criticals = {}
          /\ \A i \in ScanDispatches("NotifyComplianceTeam") :
                /\ i = Len(sLog)
                /\ sLog[i].arg.Type = "CRITICAL_VULNERABILITIES"
                /\ sLog[i].arg.Count = Cardinality(criticals)
                /\ sLog[i].arg.ScanID = sOut.res.ScanID
                /\ sLog[i].arg.ScanID = sReport.ReportID

Wit_C19_NotifiedTwoCriticals ==
    /\ ScanCompleted
    /\ sNotify = "dispatched"
    /\ sReport.state = "ok"
    /\ sLog[Len(sLog)].name = "NotifyComplianceTeam"
    /\ sLog[Len(sLog)].arg.Count = 2

\* C20: a completed scan has returned a result and no error also when scan
\* activities failed terminally; the returned list holds every
\* vulnerability of every collected scan that succeeded, each once, and
\* nothing else: nothing a failed scan type could have reported.
Thm_C20_FailedScanIsDroppedNotFatal ==
    ScanCompleted =>
        LET list == sOut.res.Vulnerabilities
            succeeded == {t \in ScanTypeNames : sFut[t].state = "ok"}
            failed == {t \in ScanTypeNames : sFut[t].state = "failed"}
        IN
        /\ sOut.err = NoError /\ ~sOut.res.nil
        /\ list = sVulns
        /\ ElementsOf(list) = UNION {ElementsOf(sFut[t].value) : t \in succeeded}
        /\ Cardinality(ElementsOf(list)) = Len(list)
        /\ \A t \in failed : \A vulns \in ScanOutcomes(t) :
              ElementsOf(vulns) \cap ElementsOf(list) = {}
        /\ succeeded \cup failed = ElementsOf(sVisited)

Wit_C20_OneScanFailedOtherKept ==
    /\ ScanCompleted
    /\ sVisited = <<"sast", "dependency">>
    /\ sFut["sast"].state = "ok" /\ sFut["sast"].value # <<>>
    /\ sFut["dependency"].state = "failed"
    /\ sOut.res.Vulnerabilities = sFut["sast"].value

(***************************************************************************)
(* Properties of the permission checks (checked under SpecPermission).     *)
(***************************************************************************)
\* a query was made
Asked == permReq # <<>>

\* C16: hasPermission(permissions, "security:scan:execute") is true when
\* the list holds "security:*" or "security:scan:execute", and false for
\* every list that holds neither.
Thm_C16_ScanExecuteByTokenOrWildcard ==
    permReq = <<"security", "scan", "execute">> =>
        ( permGo <=>
            \E i \in 1..Len(permCtx) :
                permCtx[i] \in {<<"security", "*">>, <<"security", "scan", "execute">>} )

Wit_C16_WildcardGrantsScanExecute ==
    /\ permReq = <<"security", "scan", "execute">>
    /\ permCtx = << <<"read", "only">>, <<"security", "*">> >>
    /\ permGo

\* C17: a permission check grants the required token only if the list
\* holds that token or the wildcard "<category>:*" of the token's own
\* category (its first segment); this is asked of hasPermission and of
\* contextHasPermission.
Cex_C17_WildcardGrantsOnlyOwnCategory ==
    LET exact == \E i \in 1..Len(permCtx) : permCtx[i] = permReq
        ownWildcard ==
            Len(permReq) > 1 /\ \E i \in 1..Len(permCtx) : permCtx[i] = <<permReq[1], "*">>
    IN
    Asked =>
        /\ permGo => (exact \/ ownWildcard)
        /\ permTs => (exact \/ ownWildcard)

(***************************************************************************)
(* Report failure in SecurityScanWorkflow (checked under SpecSecurityScan). *)
(***************************************************************************)
ReportFailed == sReport.state = "failed"

\* C21: when GenerateSecurityReport has failed for good the workflow has
\* returned a result and no error; ScanID and ReportURL are empty; the
\* vulnerability list is the aggregate of the scans and the status is the one
\* that list gives, so that the result differs from the one a successful
\* report gives only in ScanID and ReportURL.
Thm_C21_ReportFailureIsNotFatal ==
    ReportFailed =>
        /\ sOut.done
        /\ sOut.err = NoError
        /\ ~sOut.res.nil
        /\ sOut.res.ScanID = ""
        /\ sOut.res.ReportURL = ""
        /\ sOut.res.Vulnerabilities = sVulns
        /\ sOut.res.Status =
              ( IF Severe(sVulns, "critical") THEN "FAILED_CRITICAL"
                ELSE IF Severe(sVulns, "high") THEN "FAILED_HIGH"
                ELSE IF sVulns # <<>> THEN "PASSED_WITH_WARNINGS"
                ELSE "PASSED" )
        /\ \A reportID \in ReportIds :
              [sOut.res EXCEPT !.ScanID = reportID, !.ReportURL = ReportURL(reportID)]
                  = ScanResult(reportID, determineStatus(sVulns), sVulns, ReportURL(reportID))

Wit_C21_ReportFailedAfterHighFinding ==
    /\ ReportFailed
    /\ sOut.done
    /\ sOut.res.Status = "FAILED_HIGH"
    /\ sOut.res.Vulnerabilities # <<>>
    /\ sOut.res.ScanID = ""

(***************************************************************************)
(* Order of the join in SecurityScanWorkflow (checked under                *)
(* SpecSecurityScan).                                                      *)
(***************************************************************************)
\* C22: for the request and the per-scan-type results of a completed scan,
\* the list in the result and the list given to GenerateSecurityReport are
\* the list the collect loop builds for every iteration order over the
\* futures map: the same request and the same results give one order.
Cex_C22_JoinOrderIsStable ==
    ScanCompleted =>
        \A order \in Iterations(sFut) :
            /\ sOut.res.Vulnerabilities = CollectAll(order, sFut)
            /\ \A i \in ScanDispatches("GenerateSecurityReport") :
                   sLog[i].arg = CollectAll(order, sFut)

Thm_C24_NonRetryableStopsAtOnce ==
    /\ [](/\ \A c \in ChildIds :
                pLast[c] \notin {"FraudDetectedError", "InsufficientFundsError"}
          /\ \A f \in Futures :
                /\ v2Fut[f].state = "running" =>
                      v2Fut[f].kind \notin
                          {"FraudDetectedError", "InsufficientFundsError", "InvalidCardError"}
                /\ v2Fut[f].state = "failed" =>
                      \/ v2Fut[f].attempt = 3
                      \/ v2Fut[f].kind \in
                            {"FraudDetectedError", "InsufficientFundsError", "InvalidCardError"}
          /\ v2Charge.state = "running" =>
                v2Charge.kind \notin
                    {"FraudDetectedError", "InsufficientFundsError", "InvalidCardError"}
          /\ v2Charge.state = "failed" =>
                \/ v2Charge.attempt = 3
                \/ v2Charge.kind \in
                      {"FraudDetectedError", "InsufficientFundsError", "InvalidCardError"})
    /\ [][\A c \in ChildIds :
            /\ (pPc[c] \in {"fraud", "charge"} /\ pErr'[c] # NoError) =>
                  /\ pPc'[c] = "closed"
                  /\ \/ pAttempt[c] = 5
                     \/ pErr'[c].kind \in {"FraudDetectedError", "InsufficientFundsError"}
            /\ (pPc[c] \in {"fraud", "charge"} /\ pAttempt'[c] = pAttempt[c] + 1) =>
                  /\ pPc'[c] = pPc[c]
                  /\ pLast'[c] # ""
                  /\ pLast'[c] \notin {"FraudDetectedError", "InsufficientFundsError"}
         ]_vars

Wit_C24_InvalidCardStopsAtFirstAttempt ==
    /\ v2Fut["card"].state = "failed"
    /\ v2Fut["card"].kind = "InvalidCardError"
    /\ v2Fut["card"].attempt = 1
    /\ v2Fut["fraud"].state = "running"
    /\ v2Fut["fraud"].attempt = 2
    /\ v2Fut["fraud"].kind = "TimeoutError"

(***************************************************************************)
(* Backoff intervals (checked under SpecRetry).                            *)
(***************************************************************************)
Evaluated == rCall.attempt >= 1

\* C25: the interval after attempt n is min(InitialInterval *
\* BackoffCoefficient^(n-1), MaximumInterval), to the millisecond: it is
\* InitialInterval after the first attempt, it is not below the interval
\* after attempt n-1, and it never exceeds MaximumInterval.  Under the policy
\* of OrderWorkflow it is 1 s, then 2 s, and 1 minute from attempt 7 on.
Thm_C25_BackoffIsCappedExponential ==
    Evaluated =>
        LET policy == RetryPolicies[rCall.policy]
            n == rCall.attempt
            initial == policy.InitialInterval
            maximum == policy.MaximumInterval
            up == Power(policy.BackoffCoefficient.num, n - 1)
            down == Power(policy.BackoffCoefficient.den, n - 1)
        IN
        /\ IF initial * up >= maximum * down
           THEN rCall.delay = maximum
           ELSE /\ rCall.delay * down <= initial * up
                /\ initial * up < (rCall.delay + 1) * down
        /\ n = 1 => rCall.delay = initial
        /\ rCall.previous <= rCall.delay
        /\ rCall.delay <= maximum
        /\ rCall.policy = "Order" =>
              /\ n = 1 => rCall.delay = 1000
              /\ n = 2 => rCall.delay = 2000
              /\ n >= 7 => rCall.delay = 60000
              /\ rCall.delay <= 60000

Wit_C25_OrderIntervalCappedAtOneMinute ==
    /\ rCall.policy = "Order"
    /\ rCall.attempt = 7
    /\ rCall.previous = 32000
    /\ rCall.delay = 60000

(***************************************************************************)
(* Cancellation of OrderWorkflow (checked under SpecOrderCancel).          *)
(***************************************************************************)
\* execution w was cancelled while it waited for an activity
Cancelled(w) == oOut[w].done /\ (oRefund[w] = "cancelled" \/ oOut[w].err.kind = "CanceledError")

\* C26: an execution that was cancelled after its payment child had returned
\* APPROVED makes no further attempt of the activity it waited for, and
\* RefundPayment has been dispatched for the transaction of the child.
Cex_C26_CancelledAfterApprovalStillRefunds ==
    \A w \in Executions :
        (Cancelled(w) /\ ChildApproved(w)) =>
            /\ oAttempt[w] = 0
            /\ \E i \in 1..Len(oLog[w]) :
                  oLog[w][i] = Dispatch("RefundPayment", oChildOut[w].res.TransactionID)

(***************************************************************************)
(* Charges of one payment run (checked under SpecWorkflows).               *)
(***************************************************************************)
\* C27: the gateway holds at most one committed charge for each run of
\* PaymentWorkflow and for the run of PaymentWorkflowV2, whatever attempts of
\* the charge activity failed or timed out before the one that returned.
Cex_C27_AtMostOneChargePerRun ==
    \A a, b \in charges : (a.child = b.child /\ a.run = b.run) => a = b

(***************************************************************************)
(* Task queue of the payment child (checked under SpecOrder).              *)
(***************************************************************************)
\* C28: the tasks of every started run of the payment child are put on the
\* payment-processing queue, whose worker has PaymentWorkflow and the
\* activities it calls registered.
Cex_C28_ChildRunsOnPaymentQueue ==
    \A c \in ChildIds :
        pRun[c] > 0 =>
            /\ pQueue[c] = PaymentTaskQueue
            /\ "PaymentWorkflow" \in RegisteredWorkflows(pQueue[c])
            /\ {"CheckFraud", "ChargePaymentMethod", "SendPaymentConfirmation"}
                    \subseteq RegisteredActivities(pQueue[c])

(***************************************************************************)
(* The documented retry configuration of PaymentWorkflow (checked under    *)
(* SpecOrder).                                                             *)
(***************************************************************************)
\* C29: PaymentWorkflow never makes a fourth attempt of an activity, and a
\* second attempt comes after an interval of 1 second.
Cex_C29_PaymentRetriesAsDocumented ==
    \A c \in ChildIds :
        /\ pAttempt[c] <= 3
        /\ pAttempt[c] >= 2 => BackoffInterval(PaymentRetryPolicy, 1) = 1000

(***************************************************************************)
(* Fatal errors of OrderWorkflow (checked under SpecOrder).                *)
(***************************************************************************)
\* ValidateInventory failed for good: the execution is over without a result
\* of the activity
InventoryFailed(w) == Ended(w) /\ ~oInv[w].ok
\* ExecuteChildWorkflow(...).Get returned an error
ChildFailed(w) == oChildOut[w].err # NoError

\* C30: when ValidateInventory has failed for good the execution has
\* returned that error and no result, and ValidateInventory is all it
\* dispatched: no payment child was started; when the Get of the payment
\* child returned an error, neither GenerateShippingLabel nor RefundPayment
\* is ever dispatched, and the execution ends with that error and no result.
Thm_C30_FatalErrorsPropagate ==
    \A w \in Executions :
        /\ InventoryFailed(w) =>
              /\ oOut[w].res.nil
              /\ oOut[w].err.activity = "ValidateInventory"
              /\ oOut[w].err.kind \in TransientKinds
              /\ Len(oLog[w]) = 1
              /\ ~Dispatched(w, "PaymentWorkflow")
              /\ oChildOut[w] = [res |-> NilPaymentResult, err |-> NoError]
        /\ ChildFailed(w) =>
              /\ oPc[w] \in {"childDone", "done"}
              /\ ~Dispatched(w, "GenerateShippingLabel")
              /\ ~Dispatched(w, "RefundPayment")
              /\ oShip[w] = "" /\ oRefund[w] = "none"
              /\ Ended(w) => (oOut[w].res.nil /\ oOut[w].err = oChildOut[w].err)

Wit_C30_InventoryErrorAndChildError ==
    \E w1, w2 \in Executions :
        /\ InventoryFailed(w1)
        /\ oOut[w1].err = ActivityError("ValidateInventory", "TimeoutError")
        /\ Ended(w2) /\ ChildFailed(w2)
        /\ oOut[w2].err = Terminated

(***************************************************************************)
(* Order of the steps of PaymentWorkflow v1 (checked under SpecOrder).     *)
(***************************************************************************)
PayDispatchNames(c) == [i \in 1..Len(pLog[c]) |-> pLog[c][i].name]

\* C31: what a run has dispatched is an initial part of CheckFraud,
\* ChargePaymentMethod, SendPaymentConfirmation, each at most once;
\* ChargePaymentMethod is in it only when CheckFraud returned a risk score of
\* at most 0.8; SendPaymentConfirmation is in it only when the charge
\* returned, and its input is the transaction id of that committed charge.
Thm_C31_PaymentStepsAreSequential ==
    \A c \in ChildIds :
        /\ PayDispatchNames(c) \in
              { <<>>, <<"CheckFraud">>, <<"CheckFraud", "ChargePaymentMethod">>,
                <<"CheckFraud", "ChargePaymentMethod", "SendPaymentConfirmation">> }
        /\ pRun[c] > 0 => Len(pLog[c]) >= 1
        /\ PayDispatched(c, "ChargePaymentMethod") =>
              (FraudChecked(c) /\ pFraud[c] <= 80)
        /\ (pPc[c] = "fraud") => Len(pLog[c]) = 1
        /\ PayDispatched(c, "SendPaymentConfirmation") =>
              /\ pCharge[c] # ""
              /\ pLog[c][3].arg = pCharge[c]
              /\ \E ch \in charges :
                    ch.child = c /\ ch.run = pRun[c] /\ ch.txn = pCharge[c]
              /\ pConf[c] # "none"
        /\ (pCharge[c] = "" \/ pConf[c] = "none") =>
              ~PayDispatched(c, "SendPaymentConfirmation")

Wit_C31_AllThreeStepsInOrder ==
    \E c \in ChildIds :
        /\ Len(pLog[c]) = 3
        /\ pFraud[c] = 80
        /\ pLog[c][3] = Dispatch("SendPaymentConfirmation", pCharge[c])
        /\ RunCharges(c) = 2

(***************************************************************************)
(* The charge of PaymentWorkflowV2 (checked under SpecPaymentV2).          *)
(***************************************************************************)
\* C32: ChargePaymentMethodV2 has been dispatched only when CheckFraudV2
\* succeeded with a risk score of at most 0.75 and ValidateCard succeeded
\* with true; after a terminal failure of either there is no charge.
Cex_C32_ChargeOnlyAfterBothChecksPassed ==
    V2Dispatched("ChargePaymentMethodV2") =>
        /\ v2Fut["fraud"].state = "ok" /\ v2Fut["fraud"].value <= 75
        /\ v2Fut["card"].state = "ok" /\ v2Fut["card"].value = TRUE

(***************************************************************************)
(* Fan-out and join of SecurityScanWorkflow (checked under                 *)
(* SpecSecurityScan).                                                      *)
(***************************************************************************)
\* the scan activities dispatched by the fan-out loop
ScanActivityDispatches ==
    {i \in 1..Len(sLog) : \E t \in ScanTypeNames : sLog[i].name = ScanActivity(t)}
\* the collect loop is over
Joined == sPc = "report" \/ ScanCompleted
\* the scan activities that returned a result, referenced by the map or not
Succeeded == {f \in {sFut[t] : t \in ScanTypeNames} \cup {sLost[t] : t \in ScanTypeNames} :
                 f.state = "ok"}

\* C33: once GenerateSecurityReport is dispatched (and when the status and
\* the notification are decided) every scan activity the workflow dispatched
\* has succeeded or failed for good, and the list the report got is the
\* aggregate of all that succeeded.
Cex_C33_ReportAfterEveryScanEnded ==
    (ScanDispatches("GenerateSecurityReport") # {} \/ ScanCompleted) =>
        /\ \A t \in ScanTypeNames :
              /\ sFut[t].state \in {"none", "ok", "failed"}
              /\ sLost[t].state \in {"none", "ok", "failed"}
        /\ \A i \in ScanDispatches("GenerateSecurityReport") :
              /\ sLog[i].arg = sVulns
              /\ ElementsOf(sLog[i].arg) = UNION {ElementsOf(f.value) : f \in Succeeded}

\* C34: after the join the number of scan activities dispatched is the number
\* of futures the collect loop waited for, and no dispatched activity is
\* left without a future in the map.
Cex_C34_EveryDispatchedScanIsCollected ==
    Joined =>
        /\ Cardinality(ScanActivityDispatches) = Len(sVisited)
        /\ \A t \in ScanTypeNames : sLost[t].state = "none"

(***************************************************************************)
(* Charges of orders that did not complete (checked under SpecOrder).      *)
(***************************************************************************)
\* execution w is over and its order did not complete
NotCompleted(w) ==
    /\ Ended(w)
    /\ \/ oOut[w].err # NoError
       \/ oOut[w].res.Status \in {"PAYMENT_DECLINED", "INVENTORY_UNAVAILABLE"}
\* no other execution works on the order of w
OnlyExecutionOfItsOrder(w) == \A other \in Executions \ {w} : oReq[other] # oReq[w]

\* C35: when the only execution of an order has ended with PAYMENT_DECLINED,
\* INVENTORY_UNAVAILABLE or an error, every charge committed for the order is
\* among the refunded transactions.
Cex_C35_NoChargeWithoutCompletedOrder ==
    \A w \in Executions :
        (NotCompleted(w) /\ OnlyExecutionOfItsOrder(w)) =>
            \A ch \in charges : ch.order = oReq[w] => ch.txn \in refunds

Cex_C37_PermissionChecksAgree ==
    Asked =>
        /\ permGo = permTs
        /\ permTs = permMw
        /\ permMw = permReg

====
